---------------------------- MODULE Spec2Model ----------------------------
(***************************************************************************)
(* A model of junifer's FMRIPrepConfoundRemover                            *)
(* (junifer/preprocess/confounds.py) and of the logging helper it raises   *)
(* its errors with (junifer/utils/logging.py).                             *)
(*                                                                         *)
(* Python values are modelled as follows.                                  *)
(*   - None is the empty sequence <<>>, a present optional value v is the  *)
(*     one-element sequence <<v>>.                                         *)
(*   - A dict is the sequence of its <<key, value>> items in insertion     *)
(*     order (keys are unique).                                            *)
(*   - A strategy key or value, which the constructor must type-check, is  *)
(*     a record [type, v] with type "str" or "int" and v the text.         *)
(*   - A pandas DataFrame is a record [columns, values]: the column names  *)
(*     in order and, per column, the sequence of its row values.  Floats   *)
(*     are modelled by integers.                                           *)
(*   - A raised exception is a record [klass, msg, args]; msg is the fixed *)
(*     part of the message and args the names formatted into it.           *)
(***************************************************************************)
EXTENDS Integers, Sequences, FiniteSets, TLC

----------------------------------------------------------------------------
(* Bounds of the model *)

\* Largest number of rows (time points) of a confound table or an image.
MaxRows == 3

\* Largest number of families in an explicitly given strategy.
MaxFamilies == 2

\* Cell values of a generated confound table are 0..MaxVal.
MaxVal == 3

----------------------------------------------------------------------------
(* Generic helpers *)

None == <<>>

Some(v) == <<v>>

Range(s) == {s[i] : i \in 1..Len(s)}

\* x in list
In(x, s) == \E i \in 1..Len(s) : s[i] = x

\* [f(x) for x in s]
Map(s, F(_)) == [i \in 1..Len(s) |-> F(s[i])]

\* [x for x in s if P(x)]
Filter(s, P(_)) == SelectSeq(s, P)

IsInjective(s) == \A i, j \in 1..Len(s) : s[i] = s[j] => i = j

\* All sequences over S of length 0..n without repeated elements.
InjSeqs(S, n) == {s \in UNION {[1..k -> S] : k \in 0..n} : IsInjective(s)}

\* The loop "for x in s: acc = Op(acc, x)".  Each iteration's value is bound
\* as an element of a singleton set, so that it is evaluated once, before
\* the following iteration.
RECURSIVE FoldLeft(_, _, _)
FoldLeft(Op(_, _), acc, s) ==
    IF s = <<>> THEN acc
    ELSE CHOOSE r \in {FoldLeft(Op, next, Tail(s)) : next \in {Op(acc, Head(s))}} : TRUE

(* dict: a sequence of <<key, value>> items in insertion order *)
DictKeys(d) == [i \in 1..Len(d) |-> d[i][1]]

DictValues(d) == [i \in 1..Len(d) |-> d[i][2]]

DictHas(d, k) == \E i \in 1..Len(d) : d[i][1] = k

DictGet(d, k) == d[CHOOSE i \in 1..Len(d) : d[i][1] = k][2]

\* d[k] = v
DictSet(d, k, v) ==
    IF DictHas(d, k)
    THEN [i \in 1..Len(d) |-> IF d[i][1] = k THEN <<k, v>> ELSE d[i]]
    ELSE Append(d, <<k, v>>)

Str(s) == [type |-> "str", v |-> s]

IntVal(s) == [type |-> "int", v |-> s]

----------------------------------------------------------------------------
(* Module constants of confounds.py *)

FMRIPREP_BASICS(kind) ==
    CASE kind = "motion" ->
           <<"trans_x", "trans_y", "trans_z", "rot_x", "rot_y", "rot_z">>
      [] kind = "wm_csf" -> <<"csf", "white_matter">>
      [] kind = "global_signal" -> <<"global_signal">>

Power2Name(x) == x \o "_power2"

DerivativeName(x) == x \o "_derivative1"

FMRIPREP_POWER2(kind) == Map(FMRIPREP_BASICS(kind), Power2Name)

FMRIPREP_DERIVATIVES(kind) == Map(FMRIPREP_BASICS(kind), DerivativeName)

FMRIPREP_DERIVATIVES_POWER2(kind) == Map(FMRIPREP_DERIVATIVES(kind), Power2Name)

Families == <<"motion", "wm_csf", "global_signal">>

FMRIPREP_VALID_NAMES ==
    UNION {Range(FMRIPREP_BASICS(k)) \cup Range(FMRIPREP_POWER2(k))
             \cup Range(FMRIPREP_DERIVATIVES(k))
             \cup Range(FMRIPREP_DERIVATIVES_POWER2(k)) : k \in Range(Families)}

----------------------------------------------------------------------------
(* pandas.DataFrame and numpy, as far as confounds.py uses them *)

\* len(df): every column has the same number of rows; rows is kept for a
\* frame without columns.
DfLen(df) == df.rows

DfHas(df, c) == In(c, df.columns)

\* df[c] = series
DfSetColumn(df, c, series) ==
    [type |-> "DataFrame",
     columns |-> IF DfHas(df, c) THEN df.columns ELSE Append(df.columns, c),
     rows |-> df.rows,
     values |-> [x \in Range(df.columns) \cup {c} |->
                   IF x = c THEN series ELSE df.values[x]]]

\* The selection with the columns left in the order of the frame.
DfSelectFrameOrder(df, names) ==
    [type |-> "DataFrame",
     columns |-> SelectSeq(df.columns, LAMBDA c : In(c, names)),
     rows |-> df.rows,
     values |-> [x \in Range(names) |-> df.values[x]]]

\* df[names]
DfSelect(df, names) ==
    [type |-> "DataFrame",
     columns |-> names,
     rows |-> df.rows,
     values |-> [x \in Range(names) |-> df.values[x]]]

\* df.rename(columns=mapping): columns that are keys of the mapping get the
\* mapped name, the others keep theirs; the data follow their column.
RenamedName(mapping, c) == IF DictHas(mapping, c) THEN DictGet(mapping, c) ELSE c

DfRename(df, mapping) ==
    LET new(c) == RenamedName(mapping, c)
    IN [type |-> "DataFrame",
        columns |-> Map(df.columns, new),
        rows |-> df.rows,
        values |-> [x \in {new(c) : c \in Range(df.columns)} |->
                      df.values[CHOOSE c \in Range(df.columns) : new(c) = x]]]

\* np.diff(x): x[i+1] - x[i], one element shorter than x
NpDiff(x) == [i \in 1..(IF Len(x) = 0 THEN 0 ELSE Len(x) - 1) |-> x[i + 1] - x[i]]

\* The zero put in front of the differences instead of behind them.
ZeroThenDiff(x) == <<0>> \o NpDiff(x)

\* np.append(np.diff(x), 0)
DiffAppendZero(x) == Append(NpDiff(x), 0)

\* x ** 2
SeriesSquare(x) == [i \in 1..Len(x) |-> x[i] * x[i]]

----------------------------------------------------------------------------
(* junifer/utils/logging.py *)

Ok(value) == [status |-> "ok", value |-> Some(value), exc |-> None, log |-> <<>>]

Exc(klass, msg, args) == [klass |-> klass, msg |-> msg, args |-> args]

\* A bare "raise klass(msg)": nothing is logged.
Raise(klass, msg, args) ==
    [status |-> "raised", value |-> None, exc |-> Some(Exc(klass, msg, args)),
     log |-> <<>>]

\* An error record on the JUNIFER logger.
ErrorRecord(msg, args) == [level |-> "ERROR", msg |-> msg, args |-> args]

\* raise_error(msg, klass): logger.error(msg), then raise klass(msg).
raise_error(msg, klass, args) ==
    [status |-> "raised", value |-> None, exc |-> Some(Exc(klass, msg, args)),
     log |-> <<ErrorRecord(msg, args)>>]

----------------------------------------------------------------------------
(* FMRIPrepConfoundRemover.__init__ *)

valid_components == <<"motion", "wm_csf", "global_signal">>

valid_confounds == <<"basic", "power2", "derivatives", "full">>

DefaultStrategy ==
    <<<<Str("motion"), Str("full")>>, <<Str("wm_csf"), Str("full")>>,
      <<Str("global_signal"), Str("full")>>>>

\* The attributes __init__ sets; strategy is the dict as given, or the
\* default when None was given.
Remover(strategy, spike, detrend, standardize, low_pass, high_pass, t_r, mask_img) ==
    [strategy |-> IF strategy = None THEN DefaultStrategy ELSE strategy[1],
     spike |-> spike, detrend |-> detrend, standardize |-> standardize,
     low_pass |-> low_pass, high_pass |-> high_pass, t_r |-> t_r,
     mask_img |-> mask_img]

\* The constructor with the names checked before the types.
InitNamesFirst(strategy, spike, detrend, standardize, low_pass, high_pass, t_r, mask_img) ==
    LET obj == Remover(strategy, spike, detrend, standardize, low_pass,
                       high_pass, t_r, mask_img)
        keys == DictKeys(obj.strategy)
        values == DictValues(obj.strategy)
    IN IF \E i \in 1..Len(keys) : ~In(keys[i].v, valid_components)
       THEN raise_error("Invalid component names", "ValueError",
                        [i \in 1..Len(keys) |-> keys[i].v])
       ELSE IF \E i \in 1..Len(values) : ~In(values[i].v, valid_confounds)
       THEN raise_error("Invalid confound types", "ValueError",
                        [i \in 1..Len(values) |-> values[i].v])
       ELSE IF \E i \in 1..Len(keys) : keys[i].type # "str"
       THEN raise_error("Strategy keys must be strings", "ValueError", <<>>)
       ELSE IF \E i \in 1..Len(values) : values[i].type # "str"
       THEN raise_error("Strategy values must be strings", "ValueError", <<>>)
       ELSE Ok(obj)

\* The constructor: the attributes are set, then the strategy is checked,
\* in the order of the code.  The value of the result is the new object.
__init__(strategy, spike, detrend, standardize, low_pass, high_pass, t_r, mask_img) ==
    LET obj == Remover(strategy, spike, detrend, standardize, low_pass,
                       high_pass, t_r, mask_img)
        keys == DictKeys(obj.strategy)
        values == DictValues(obj.strategy)
    IN IF \E i \in 1..Len(keys) : keys[i].type # "str"
       THEN raise_error("Strategy keys must be strings", "ValueError", <<>>)
       ELSE IF \E i \in 1..Len(values) : values[i].type # "str"
       THEN raise_error("Strategy values must be strings", "ValueError", <<>>)
       ELSE IF \E i \in 1..Len(keys) : ~In(keys[i].v, valid_components)
       THEN raise_error("Invalid component names", "ValueError",
                        [i \in 1..Len(keys) |-> keys[i].v])
       ELSE IF \E i \in 1..Len(values) : ~In(values[i].v, valid_confounds)
       THEN raise_error("Invalid confound types", "ValueError",
                        [i \in 1..Len(values) |-> values[i].v])
       ELSE Ok(obj)

----------------------------------------------------------------------------
(* FMRIPrepConfoundRemover._process_fmriprep_spec *)

spike_name == "framewise_displacement"

\* The power2 branch computing the square whether or not the table has it.
Power2StepAlways(available, acc, x) ==
    [acc EXCEPT
       !.to_select = Append(@, Power2Name(x)),
       !.squares_to_compute = DictSet(@, Power2Name(x), x)]

\* "for x in t_basics" of the power2 branch
Power2Step(available, acc, x) ==
    LET x_2 == Power2Name(x)
    IN [acc EXCEPT
          !.to_select = Append(@, x_2),
          !.squares_to_compute =
              IF x_2 \notin available THEN DictSet(@, x_2, x) ELSE @]

\* The derivatives branch without the squared derivative of level full.
DerivativeStepNoSquare(available, t_strategy, acc, x) ==
    LET x_derivative == DerivativeName(x)
    IN [acc EXCEPT
          !.to_select = Append(@, x_derivative),
          !.derivatives_to_compute =
              IF x_derivative \notin available
              THEN DictSet(@, x_derivative, x) ELSE @]

\* "for x in t_basics" of the derivatives branch
DerivativeStep(available, t_strategy, acc, x) ==
    LET x_derivative == DerivativeName(x)
        x_derivative_2 == Power2Name(x_derivative)
        a1 == [acc EXCEPT
                 !.to_select = Append(@, x_derivative),
                 !.derivatives_to_compute =
                     IF x_derivative \notin available
                     THEN DictSet(@, x_derivative, x) ELSE @]
    IN IF t_strategy = "full"
       THEN [a1 EXCEPT
               !.to_select = Append(@, x_derivative_2),
               !.squares_to_compute =
                   IF x_derivative_2 \notin available
                   THEN DictSet(@, x_derivative_2, x_derivative) ELSE @]
       ELSE a1

\* All basic columns of the family reported, present or not.
MissingBasicsWholeFamily(t_basics, available) == t_basics

\* [x for x in t_basics if x not in available_vars]
MissingBasics(t_basics, available) == SelectSeq(t_basics, LAMBDA x : x \notin available)

\* The check for the spike column left out.
SpikeColumnNeverMissing(self, available) == FALSE

\* "if self.spike is not None: if spike_name not in available_vars"
SpikeColumnMissing(self, available) ==
    self.spike # None /\ spike_name \notin available

\* One iteration of "for t_kind, t_strategy in self.strategy.items()"; acc
\* carries to_select, squares_to_compute, derivatives_to_compute and the
\* exception, if one was raised (the loop is then left).
StrategyStep(available, acc, item) ==
    LET t_kind == item[1].v
        t_strategy == item[2].v
        t_basics == FMRIPREP_BASICS(t_kind)
        missing == MissingBasics(t_basics, available)
        P2(a, x) == Power2Step(available, a, x)
        D(a, x) == DerivativeStep(available, t_strategy, a, x)
        a0 == [acc EXCEPT !.to_select = @ \o t_basics]
        a1 == IF t_strategy \in {"power2", "full"}
              THEN FoldLeft(P2, a0, t_basics) ELSE a0
        a2 == IF t_strategy \in {"derivatives", "full"}
              THEN FoldLeft(D, a1, t_basics) ELSE a1
    IN IF acc.exc # None THEN acc
       ELSE IF \E i \in 1..Len(t_basics) : t_basics[i] \notin available
       THEN [acc EXCEPT !.exc = Some(Exc("ValueError", "Missing basic confounds", missing))]
       ELSE a2

\* What the method returns or raises once the loop has ended with acc: the
\* exception of the loop, the missing spike column, or the 4-tuple (as a
\* record).  Both errors are bare raises: nothing is logged.
ProcessedSpec(self, available_vars, acc) ==
    IF acc.exc # None
    THEN Raise(acc.exc[1].klass, acc.exc[1].msg, acc.exc[1].args)
    ELSE IF SpikeColumnMissing(self, available_vars)
    THEN Raise("ValueError", "Missing framewise_displacement", <<>>)
    ELSE Ok([to_select |-> acc.to_select,
             squares_to_compute |-> acc.squares_to_compute,
             derivatives_to_compute |-> acc.derivatives_to_compute,
             spike_name |-> spike_name])

\* The loop over self.strategy.items() on the columns available_vars.
StrategyLoop(self, available_vars) ==
    LET Step(a, item) == StrategyStep(available_vars, a, item)
    IN FoldLeft(Step,
                [to_select |-> <<>>, squares_to_compute |-> <<>>,
                 derivatives_to_compute |-> <<>>, exc |-> None],
                self.strategy)

\* The whole method on the confound table df.
_process_fmriprep_spec(self, df) ==
    ProcessedSpec(self, Range(df.columns), StrategyLoop(self, Range(df.columns)))

----------------------------------------------------------------------------
(* FMRIPrepConfoundRemover._pick_confounds *)

\* A BOLD_confounds mapping: each of its keys "data", "format" and
\* "mappings" is optional; mappings is a mapping with the optional key
\* "fmriprep", a dict from adhoc column names to fmriprep names.
Confounds(data, format, mappings) ==
    [data |-> data, format |-> format, mappings |-> mappings]

\* Renames the columns of the caller's table in place.
_map_adhoc_to_fmriprep(input) ==
    [input EXCEPT
       !.data = Some(DfRename(input.data[1], input.mappings[1].fmriprep[1]))]

\* out_df[t_dst] = np.append(np.diff(out_df[t_src]), 0)
AddDerivative(out_df, item) ==
    DfSetColumn(out_df, item[1], DiffAppendZero(out_df.values[item[2]]))

\* out_df[t_dst] = out_df[t_src] ** 2
AddSquare(out_df, item) ==
    DfSetColumn(out_df, item[1], SeriesSquare(out_df.values[item[2]]))

\* fd.loc[fd > self.spike] = 1, then fd.loc[fd != 1] = 0
SpikeSeries(fd, spike) ==
    LET fd1 == [i \in 1..Len(fd) |-> IF fd[i] > spike THEN 1 ELSE fd[i]]
    IN [i \in 1..Len(fd1) |-> IF fd1[i] # 1 THEN 0 ELSE fd1[i]]

\* Lines 390-400: the spike column, then the selection of to_select.
\* out_df[spike_name] of a table without that column is a KeyError.
SpikeAndSelect(self, p, out_df) ==
    IF self.spike = None
    THEN Ok(DfSelect(out_df, p.to_select))
    ELSE IF ~DfHas(out_df, p.spike_name)
    THEN Raise("KeyError", p.spike_name, <<>>)
    ELSE Ok(DfSelect(DfSetColumn(out_df, "spike",
                                 SpikeSeries(out_df.values[p.spike_name],
                                             self.spike[1])),
                     Append(p.to_select, "spike")))

\* The squares computed before the derivatives: the square of a derivative
\* that is not yet a column of the table is a KeyError.
ComputeAndSelectSquaresFirst(self, p, df) ==
    IF \E i \in 1..Len(p.squares_to_compute) : ~DfHas(df, p.squares_to_compute[i][2])
    THEN Raise("KeyError", "square of a missing column", <<>>)
    ELSE SpikeAndSelect(self, p,
                        FoldLeft(AddDerivative,
                                 FoldLeft(AddSquare, df, p.squares_to_compute),
                                 p.derivatives_to_compute))

\* Lines 379-400 on the processed spec p: the copy of the table gets the
\* derivatives, then the squares, then the spike column.
ComputeAndSelect(self, p, df) ==
    SpikeAndSelect(self, p,
                   FoldLeft(AddSquare,
                            FoldLeft(AddDerivative, df, p.derivatives_to_compute),
                            p.squares_to_compute))

\* Lines 371-400 once the spec is processed: its exception goes on to the
\* caller, else the confounds are computed and selected.
PickProcessed(self, processed_spec, df) ==
    IF processed_spec.status = "raised"
    THEN processed_spec
    ELSE ComputeAndSelect(self, processed_spec.value[1], df)

\* Lines 371-400 on the mapping in1 (after the adhoc renaming, if any).
PickMapped(self, in1) ==
    [res |-> PickProcessed(self, _process_fmriprep_spec(self, in1.data[1]), in1.data[1]),
     input |-> in1]

\* The method working on the caller's table instead of a copy of it.
PickConfoundsWithoutCopy(self, input) ==
    LET r == PickMapped(self, IF input.format[1] = "adhoc"
                              THEN _map_adhoc_to_fmriprep(input) ELSE input)
    IN IF r.res.status = "ok"
       THEN [r EXCEPT !.input.data = r.res.value]
       ELSE r

\* The method on the caller's mapping input.  res is the selected table or
\* the exception; input is the caller's mapping after the call.
_pick_confounds(self, input) ==
    PickMapped(self, IF input.format[1] = "adhoc"
                     THEN _map_adhoc_to_fmriprep(input) ELSE input)

----------------------------------------------------------------------------
(* FMRIPrepConfoundRemover.validate_input, get_output_kind *)

required_inputs == <<"BOLD", "BOLD_confounds">>

validate_input(self, input) ==
    IF \E i \in 1..Len(required_inputs) : ~In(required_inputs[i], input)
    THEN raise_error("Input does not have the required data", "ValueError", input)
    ELSE Ok(None)

get_output_kind(self, input) == Ok(input)

----------------------------------------------------------------------------
(* FMRIPrepConfoundRemover._validate_data *)

\* A niimg: ndim dimensions, t volumes in the time dimension (shape[3]),
\* zooms[3] = t_r in the header; cleaned is None for the image as read and
\* holds the arguments of clean_img for a cleaned image.
Image(ndim, t, t_r) ==
    [type |-> "Nifti1Image", ndim |-> ndim, t |-> t, t_r |-> t_r, cleaned |-> None]

\* nilearn's check_niimg_4d: raises DimensionError itself.
check_niimg_4d(img) ==
    IF img.ndim # 4
    THEN Raise("DimensionError", "incompatible dimensionality", <<>>)
    ELSE Ok(img)

\* The checks on an adhoc BOLD_confounds mapping (lines 441-480).
ValidateAdhoc(confounds) ==
    LET confound_df == confounds.data[1]
        fmriprep_mappings == confounds.mappings[1].fmriprep[1]
        wrong_names == SelectSeq(DictValues(fmriprep_mappings),
                                 LAMBDA x : x \notin FMRIPREP_VALID_NAMES)
        missing == SelectSeq(DictKeys(fmriprep_mappings),
                             LAMBDA x : ~DfHas(confound_df, x))
    IN IF confounds.mappings = None
       THEN raise_error("When using adhoc format, you must specify the variables names mappings",
                        "ValueError", <<>>)
       ELSE IF confounds.mappings[1].fmriprep = None
       THEN raise_error("When using adhoc format, you must specify the variables names mappings to fmriprep format",
                        "ValueError", <<>>)
       ELSE IF Len(wrong_names) > 0
       THEN raise_error("The following mapping values are not valid fmriprep names",
                        "ValueError", wrong_names)
       \* "if len(missing) is not None": an int is never None
       ELSE IF TRUE
       THEN Raise("ValueError", "Missing columns", missing)
       ELSE Ok(None)

_validate_data(self, input, extra_input) ==
    LET confounds == extra_input[1].BOLD_confounds[1]
        confound_df == confounds.data[1]
        bold_img == input.data
        t_format == confounds.format[1]
    IN IF check_niimg_4d(input.data).status = "raised"
       THEN check_niimg_4d(input.data)
       ELSE IF extra_input = None
       THEN raise_error("No extra input provided", "ValueError", <<>>)
       ELSE IF extra_input[1].BOLD_confounds = None
       THEN raise_error("No BOLD_confounds provided", "ValueError", <<>>)
       ELSE IF confounds.data = None
       THEN raise_error("No BOLD_confounds data provided", "ValueError", <<>>)
       ELSE IF confound_df.type # "DataFrame"
       THEN raise_error("Confounds data must be a pandas dataframe", "ValueError", <<>>)
       ELSE IF bold_img.t # DfLen(confound_df)
       THEN raise_error("Image time series and confounds have different length!",
                        "ValueError", <<>>)
       ELSE IF confounds.format = None
       THEN raise_error("Confounds format must be specified", "ValueError", <<>>)
       ELSE IF t_format = "adhoc"
       THEN ValidateAdhoc(confounds)
       ELSE IF t_format # "fmriprep"
       THEN Raise("ValueError", "Invalid confounds format", <<t_format>>)
       ELSE Ok(None)

----------------------------------------------------------------------------
(* FMRIPrepConfoundRemover._remove_confounds, preprocess *)

InfoRecord(msg) == [level |-> "INFO", msg |-> msg, args |-> <<>>]

\* confounds_df.values: the columns' data in column order
DfValues(df) == [i \in 1..Len(df.columns) |-> df.values[df.columns[i]]]

\* nilearn's compute_brain_mask(bold_img)
compute_brain_mask(bold_img) == "computed_brain_mask"

\* nilearn's clean_img: a new image of the same shape and header that
\* records what it was cleaned with.
clean_img(imgs, detrend, standardize, confounds, low_pass, high_pass, t_r, mask_img) ==
    [imgs EXCEPT !.cleaned =
        Some([detrend |-> detrend, standardize |-> standardize,
              confounds |-> confounds, low_pass |-> low_pass,
              high_pass |-> high_pass, t_r |-> t_r, mask_img |-> mask_img])]

_remove_confounds(self, bold_img, confounds_df) ==
    LET t_r == IF self.t_r = None THEN bold_img.t_r ELSE self.t_r[1]
        mask_img == IF self.mask_img = None
                    THEN compute_brain_mask(bold_img) ELSE self.mask_img[1]
        clean_bold == clean_img(bold_img, self.detrend, self.standardize,
                                DfValues(confounds_df), self.low_pass,
                                self.high_pass, t_r, mask_img)
    IN [Ok(clean_bold) EXCEPT !.log =
          (IF self.t_r = None
           THEN <<InfoRecord("No t_r specified, using t_r from nifti header"),
                  InfoRecord("Read t_r from nifti header")>>
           ELSE <<>>)
          \o (IF self.mask_img = None
              THEN <<InfoRecord("Computing brain mask from image")>> ELSE <<>>)
          \o <<InfoRecord("Cleaning image")>>]

\* The remover keeping the sampling period it read from the header and the
\* brain mask it computed.
SelfStoringDefaults(self, bold_img) ==
    [self EXCEPT !.t_r = IF @ = None THEN Some(bold_img.t_r) ELSE @,
                 !.mask_img = IF @ = None THEN Some(compute_brain_mask(bold_img)) ELSE @]

\* The remover after _remove_confounds: lines 507-519 bind the sampling
\* period and the mask to the local names t_r and mask_img, and no
\* attribute of self is assigned.
SelfAfterRemove(self, bold_img) == self

\* The cleaned image returned in a new mapping, the caller's left as it was.
RemoveAndReturnCopy(input, extra1, removed) ==
    [res |-> [Ok([key |-> "BOLD", object |-> "copy"]) EXCEPT !.log = removed.log],
     input |-> input,
     extra_input |-> extra1,
     calls |-> <<"_validate_data", "_pick_confounds", "_remove_confounds">>]

\* Lines 570-571: input["data"] is replaced by the cleaned image and the
\* key and the caller's input mapping itself are returned: the value holds
\* the key and a reference to that mapping.
RemoveAndReturn(input, extra1, removed) ==
    [res |-> [Ok([key |-> "BOLD", object |-> "input"]) EXCEPT !.log = removed.log],
     input |-> [input EXCEPT !.data = removed.value[1]],
     extra_input |-> extra1,
     calls |-> <<"_validate_data", "_pick_confounds", "_remove_confounds">>]

\* Lines 568-571, once the confounds are picked.
PreprocessPicked(self, input, extra1, picked) ==
    IF picked.status = "raised"
    THEN [res |-> picked, input |-> input, extra_input |-> extra1,
          calls |-> <<"_validate_data", "_pick_confounds">>]
    ELSE RemoveAndReturn(input, extra1,
                         _remove_confounds(self, input.data, picked.value[1]))

\* Lines 568-571, after the validation.
PreprocessValid(self, input, extra_input, picked) ==
    PreprocessPicked(self, input,
                     Some([extra_input[1] EXCEPT !.BOLD_confounds = Some(picked.input)]),
                     picked.res)

\* The confounds can be picked: the mapping has a table, a format and,
\* for the adhoc format, a mapping to fmriprep names.
Pickable(extra_input) ==
    /\ extra_input # None
    /\ extra_input[1].BOLD_confounds # None
    /\ extra_input[1].BOLD_confounds[1].data # None
    /\ extra_input[1].BOLD_confounds[1].data[1].type = "DataFrame"
    /\ extra_input[1].BOLD_confounds[1].format # None
    /\ extra_input[1].BOLD_confounds[1].format[1] = "adhoc" =>
          /\ extra_input[1].BOLD_confounds[1].mappings # None
          /\ extra_input[1].BOLD_confounds[1].mappings[1].fmriprep # None

\* preprocess going on to pick the confounds whatever the validation
\* found, wherever they can be picked.
PreprocessUnvalidated(self, input, extra_input, validated) ==
    IF validated.status = "raised" /\ ~Pickable(extra_input)
    THEN [res |-> validated, input |-> input, extra_input |-> extra_input,
          calls |-> <<"_validate_data">>]
    ELSE PreprocessValid(self, input, extra_input,
                         _pick_confounds(self, extra_input[1].BOLD_confounds[1]))

\* Lines 566-571 with the outcome of _validate_data.
PreprocessValidated(self, input, extra_input, validated) ==
    IF validated.status = "raised"
    THEN [res |-> validated, input |-> input, extra_input |-> extra_input,
          calls |-> <<"_validate_data">>]
    ELSE PreprocessValid(self, input, extra_input,
                         _pick_confounds(self, extra_input[1].BOLD_confounds[1]))

\* preprocess on the caller's mappings input and extra_input.  The result
\* holds what is returned or raised (res), the two mappings after the call
\* and the methods that ran, in order (calls).
preprocess(self, input, extra_input) ==
    PreprocessValidated(self, input, extra_input,
                        _validate_data(self, input, extra_input))

----------------------------------------------------------------------------
(* Inputs *)

\* Cell (row i of the k-th column) of a generated confound table.
Cell(k, i) == (k * i + k \div 2 + i - 1) % (MaxVal + 1)

\* A DataFrame with the given columns and n rows.
Table(columns, n) ==
    [type |-> "DataFrame", columns |-> columns, rows |-> n,
     values |-> [c \in Range(columns) |->
                   [i \in 1..n |-> Cell(CHOOSE k \in 1..Len(columns) : columns[k] = c, i)]]]

\* The basic columns of the families of fs, in the order of fs.
RECURSIVE BasicsOf(_)
BasicsOf(fs) ==
    IF fs = <<>> THEN <<>> ELSE FMRIPREP_BASICS(Head(fs)) \o BasicsOf(Tail(fs))

AllBasics == BasicsOf(Families)

Without(s, drop) == SelectSeq(s, LAMBDA x : x \notin drop)

\* Column lists of confound tables in fmriprep format:
\*  the basic columns of some of the families, with or without
\*  framewise_displacement; all basic columns but some; all basic columns
\*  and some of the derived columns.
FamilySubsets ==
    {<<>>, <<"motion">>, <<"wm_csf">>, <<"global_signal">>,
     <<"wm_csf", "motion">>, <<"motion", "global_signal">>,
     <<"global_signal", "wm_csf">>, Families}

Dropped == {{"white_matter"}, {"trans_y", "rot_z"}, {"rot_x", "csf", "global_signal"}}

Supplied ==
    {<<"csf_power2">>, <<"csf_derivative1">>, <<"csf_derivative1_power2">>,
     <<"global_signal_derivative1", "global_signal_derivative1_power2", "spike">>,
     <<"white_matter_power2", "csf_power2", "csf_derivative1",
       "white_matter_derivative1", "csf_derivative1_power2",
       "white_matter_derivative1_power2">>}

FullColumns == Append(AllBasics, spike_name)

FmriprepColumns ==
    {BasicsOf(fs) : fs \in FamilySubsets}
    \cup {Append(BasicsOf(fs), spike_name) : fs \in FamilySubsets}
    \cup {<<spike_name>> \o BasicsOf(fs) : fs \in {<<>>, <<"global_signal">>}}
    \cup {Without(FullColumns, d) : d \in Dropped}
    \cup {<<spike_name>> \o AllBasics \o e : e \in Supplied}

FmriprepTables ==
    {Table(cols, MaxRows) : cols \in FmriprepColumns}
    \cup {Table(FullColumns, n) : n \in 1..MaxRows}

\* Tables under an adhoc naming scheme, with the mapping to fmriprep names.
AdhocColumns == {<<"var0", "var1">>, <<"var0", "var1", spike_name>>, <<"var1">>}

GoodMapping == <<<<"var0", "csf">>, <<"var1", "white_matter">>>>

AdhocMappings ==
    {GoodMapping,
     <<<<"var0", "csf">>, <<"var1", "wrong">>>>,
     <<<<"var1", "white_matter">>, <<"wrong", "csf">>>>}

\* A mapping whose keys are also its values, on a table with those columns.
SwapMapping == <<<<"csf", "white_matter">>, <<"white_matter", "csf">>>>

SwappedConfounds ==
    {Confounds(Some(Table(cols, MaxRows)), Some("adhoc"), Some([fmriprep |-> Some(SwapMapping)])) :
        cols \in {<<"csf", "white_matter">>, <<"csf", "white_matter", spike_name>>}}

\* The BOLD_confounds mappings a data reader hands over.
FmriprepConfounds == {Confounds(Some(t), Some("fmriprep"), None) : t \in FmriprepTables}

AdhocConfounds(mappings) ==
    {Confounds(Some(Table(cols, MaxRows)), Some("adhoc"), Some([fmriprep |-> Some(m)])) :
        cols \in AdhocColumns, m \in mappings}

ExtraInput(c) == Some([BOLD_confounds |-> Some(c)])

\* The BOLD mapping: the image, its path and its meta.
Bold(img) == [data |-> img, path |-> "bold.nii.gz", meta |-> "meta"]

----------------------------------------------------------------------------
(* State *)

VARIABLES
    self,         \* the FMRIPrepConfoundRemover: None until constructed
    input,        \* the caller's BOLD mapping
    extra_input,  \* the caller's extra_input: None or a mapping
    ret,          \* the last call: its name, status, value or exception
    log,          \* the records the last call put on the JUNIFER logger
    calls         \* the methods preprocess ran in the last call, in order

vars == <<self, input, extra_input, ret, log, calls>>

\* A call of op with the arguments args (other than self and the mappings
\* input and extra_input, which are state) and the outcome res.
Call(op, args, res) ==
    [op |-> op, args |-> args, status |-> res.status, value |-> res.value,
     exc |-> res.exc]

NoCall == [op |-> "none", args |-> <<>>, status |-> "ok", value |-> None, exc |-> None]

InitWith(images, extras) ==
    /\ self = None
    /\ input \in {Bold(img) : img \in images}
    /\ extra_input \in extras
    /\ ret = NoCall
    /\ log = <<>>
    /\ calls = <<>>

\* The caller's confound table.
TheConfounds == extra_input[1].BOLD_confounds[1]

TheTable == TheConfounds.data[1]

----------------------------------------------------------------------------
(* Operations *)

StrategyKeys == {Str(k) : k \in Range(valid_components)}

StrategyValues == {Str(v) : v \in Range(valid_confounds)}

\* dicts with at most n items over the given keys and values
Dicts(keys, values, n) ==
    {d \in UNION {[1..k -> keys \X values] : k \in 0..n} : IsInjective(DictKeys(d))}

ValidStrategies == {None} \cup {Some(d) : d \in Dicts(StrategyKeys, StrategyValues, MaxFamilies)}

Thresholds == {1, 2}

Spikes == {None} \cup {Some(t) : t \in Thresholds}

\* FMRIPrepConfoundRemover(strategy=..., spike=...)
Construct(strategies) ==
    /\ self = None
    /\ ret.op = "none"
    /\ \E strategy \in strategies, spike \in Spikes :
          LET res == __init__(strategy, spike, TRUE, TRUE, None, None, None, None)
          IN /\ self' = IF res.status = "ok" THEN res.value ELSE None
             /\ ret' = Call("__init__", <<strategy, spike>>, [res EXCEPT !.value = None])
             /\ log' = res.log
    /\ calls' = <<>>
    /\ UNCHANGED <<input, extra_input>>

\* self._process_fmriprep_spec(extra_input["BOLD_confounds"])
ProcessFmriprepSpec ==
    /\ self # None
    /\ LET res == _process_fmriprep_spec(self[1], TheTable)
       IN /\ ret' = Call("_process_fmriprep_spec", <<>>, res)
          /\ log' = res.log
    /\ calls' = <<>>
    /\ UNCHANGED <<self, input, extra_input>>

\* self._pick_confounds(extra_input["BOLD_confounds"])
PickConfounds ==
    /\ self # None
    /\ LET r == _pick_confounds(self[1], TheConfounds)
       IN /\ ret' = Call("_pick_confounds", <<>>, r.res)
          /\ log' = r.res.log
          /\ extra_input' = ExtraInput(r.input)
    /\ calls' = <<>>
    /\ UNCHANGED <<self, input>>

InputLists == InjSeqs({"BOLD", "T1w", "BOLD_confounds"}, 3)

\* self.validate_input(input)
ValidateInput ==
    /\ self # None
    /\ \E kinds \in InputLists :
          LET res == validate_input(self[1], kinds)
          IN /\ ret' = Call("validate_input", <<kinds>>, res)
             /\ log' = res.log
    /\ calls' = <<>>
    /\ UNCHANGED <<self, input, extra_input>>

\* self.get_output_kind(input)
GetOutputKind ==
    /\ self # None
    /\ \E kinds \in InputLists :
          LET res == get_output_kind(self[1], kinds)
          IN /\ ret' = Call("get_output_kind", <<kinds>>, res)
             /\ log' = res.log
    /\ calls' = <<>>
    /\ UNCHANGED <<self, input, extra_input>>

\* self._validate_data(input, extra_input)
ValidateData ==
    /\ self # None
    /\ LET res == _validate_data(self[1], input, extra_input)
       IN /\ ret' = Call("_validate_data", <<>>, res)
          /\ log' = res.log
    /\ calls' = <<>>
    /\ UNCHANGED <<self, input, extra_input>>

\* self.preprocess(input, extra_input)
Preprocess ==
    /\ self # None
    /\ LET r == preprocess(self[1], input, extra_input)
       IN /\ ret' = Call("preprocess", <<>>, r.res)
          /\ log' = r.res.log
          /\ input' = r.input
          /\ extra_input' = r.extra_input
          /\ calls' = r.calls
          /\ self' = IF In("_remove_confounds", r.calls)
                     THEN Some(SelfAfterRemove(self[1], input.data))
                     ELSE self

\* self._remove_confounds(input["data"], confounds_df) on the caller's table
RemoveConfounds ==
    /\ self # None
    /\ LET res == _remove_confounds(self[1], input.data, TheTable)
       IN /\ ret' = Call("_remove_confounds", <<>>, res)
          /\ log' = res.log
    /\ self' = Some(SelfAfterRemove(self[1], input.data))
    /\ calls' = <<>>
    /\ UNCHANGED <<input, extra_input>>

\* Values of the cleaning parameters low_pass, high_pass and t_r.
Periods == {None, Some(1)}

Masks == {None, Some("mask_img")}

\* Values of <<detrend, standardize, low_pass, high_pass>>: the defaults,
\* and two settings that differ from them in every place.
Cleanings ==
    {<<TRUE, TRUE, None, None>>, <<FALSE, TRUE, Some(1), None>>,
     <<TRUE, FALSE, None, Some(1)>>, <<FALSE, FALSE, Some(1), Some(1)>>}

\* FMRIPrepConfoundRemover(...) with every parameter given or defaulted
ConstructConfigured(strategies) ==
    /\ self = None
    /\ ret.op = "none"
    /\ \E strategy \in strategies, spike \in {None, Some(1)},
          c \in Cleanings, t_r \in Periods, mask_img \in Masks :
          LET res == __init__(strategy, spike, c[1], c[2], c[3], c[4], t_r, mask_img)
          IN /\ self' = IF res.status = "ok" THEN res.value ELSE None
             /\ ret' = Call("__init__", <<strategy, spike, c, t_r, mask_img>>,
                            [res EXCEPT !.value = None])
             /\ log' = res.log
    /\ calls' = <<>>
    /\ UNCHANGED <<input, extra_input>>

----------------------------------------------------------------------------
(* Confound selection: a remover with a valid strategy, calls of           *)
(* _process_fmriprep_spec and _pick_confounds on a confound table.         *)

Init == InitWith({Image(4, MaxRows, 2)},
                 {ExtraInput(c) : c \in FmriprepConfounds \cup AdhocConfounds({GoodMapping})
                                          \cup SwappedConfounds})

Next ==
    \/ Construct(ValidStrategies)
    \/ ProcessFmriprepSpec
    \/ PickConfounds

Spec == Init /\ [][Next]_vars

----------------------------------------------------------------------------
(* Construction: any strategy dict, valid or not; validate_input and       *)
(* get_output_kind on the constructed remover.                             *)

RawKeys == StrategyKeys \cup {Str("wrong"), IntVal("1")}

RawValues == StrategyValues \cup {Str("wrong"), IntVal("1")}

RawStrategies == {None} \cup {Some(d) : d \in Dicts(RawKeys, RawValues, MaxFamilies)}

InitInit == InitWith({Image(4, MaxRows, 2)},
                     {ExtraInput(Confounds(Some(Table(FullColumns, MaxRows)),
                                           Some("fmriprep"), None))})

NextInit ==
    \/ Construct(RawStrategies)
    \/ ValidateInput
    \/ GetOutputKind

SpecInit == InitInit /\ [][NextInit]_vars

----------------------------------------------------------------------------
(* Preprocessing: _validate_data and preprocess on the mappings of a data  *)
(* object, well-formed or not.                                             *)

\* A strategy of at most one family, or the default one.
SmallStrategies == {None} \cup {Some(d) : d \in Dicts(StrategyKeys, StrategyValues, 1)}

\* A 3-D image; 4-D images of 1..MaxRows volumes (with a t_r of 2 s).
Images == {Image(3, 1, 2)} \cup {Image(4, t, 2) : t \in 1..MaxRows}

NotADataFrame == [type |-> "str", v |-> "wrong"]

PreprocessTables ==
    {Table(cols, MaxRows) :
        cols \in {FullColumns, AllBasics, <<"csf">>,
                  <<spike_name>> \o AllBasics \o <<"csf_derivative1", "spike">>}}

MalformedConfounds ==
    {Confounds(None, None, None),
     Confounds(Some(NotADataFrame), Some("fmriprep"), None),
     Confounds(Some(Table(FullColumns, MaxRows)), None, None),
     Confounds(Some(Table(FullColumns, MaxRows)), Some("wrong"), None),
     Confounds(Some(Table(FullColumns, MaxRows)), Some("adhoc"), None),
     Confounds(Some(Table(FullColumns, MaxRows)), Some("adhoc"), Some([fmriprep |-> None]))}

ExtraInputs ==
    {None, Some([BOLD_confounds |-> None])}
    \cup {ExtraInput(c) : c \in MalformedConfounds}
    \cup {ExtraInput(Confounds(Some(t), Some("fmriprep"), None)) : t \in PreprocessTables}
    \cup {ExtraInput(c) : c \in AdhocConfounds(AdhocMappings)}

InitPreprocess == InitWith(Images, ExtraInputs)

NextPreprocess ==
    \/ Construct(SmallStrategies)
    \/ ValidateData
    \/ Preprocess

SpecPreprocess == InitPreprocess /\ [][NextPreprocess]_vars

----------------------------------------------------------------------------
(* The remover's life: construction with any configuration, then every    *)
(* operation in any order.                                                 *)

RemoverStrategies == {None, Some(<<<<Str("wm_csf"), Str("basic")>>>>)}

RemoverExtraInputs ==
    {ExtraInput(Confounds(Some(Table(cols, MaxRows)), Some("fmriprep"), None)) :
        cols \in {FullColumns, <<"csf">>}}
    \cup {ExtraInput(c) : c \in AdhocConfounds({GoodMapping})}

InitRemover == InitWith({Image(4, MaxRows, 2)}, RemoverExtraInputs)

NextRemover ==
    \/ ConstructConfigured(RemoverStrategies)
    \/ ValidateInput
    \/ GetOutputKind
    \/ ProcessFmriprepSpec
    \/ PickConfounds
    \/ RemoveConfounds
    \/ Preprocess

SpecRemover == InitRemover /\ [][NextRemover]_vars

----------------------------------------------------------------------------
(* Confound selection: properties *)

TheStrategy == self[1].strategy

TheSpike == self[1].spike

TableColumns == Range(TheTable.columns)

\* The table returned by the last call.
Returned == ret.value[1]

PickReturned == ret.op = "_pick_confounds" /\ ret.status = "ok"

RaisedWith(klass, msg) ==
    /\ ret.status = "raised"
    /\ ret.exc[1].klass = klass
    /\ ret.exc[1].msg = msg

BasicColumns(item) == Range(FMRIPREP_BASICS(item[1].v))

\* The columns a strategy item asks for.
RequestedColumns(item) ==
    BasicColumns(item)
    \cup (IF item[2].v \in {"power2", "full"}
          THEN {x \o "_power2" : x \in BasicColumns(item)} ELSE {})
    \cup (IF item[2].v \in {"derivatives", "full"}
          THEN {x \o "_derivative1" : x \in BasicColumns(item)} ELSE {})
    \cup (IF item[2].v = "full"
          THEN {x \o "_derivative1_power2" : x \in BasicColumns(item)} ELSE {})

ExpectedColumns ==
    UNION {RequestedColumns(TheStrategy[i]) : i \in 1..Len(TheStrategy)}
    \cup (IF TheSpike # None THEN {"spike"} ELSE {})

\* The table holds nothing but basic columns of the strategy's families,
\* and framewise_displacement when spike is set.
OnlyBasicColumns ==
    TableColumns \subseteq
        UNION {BasicColumns(TheStrategy[i]) : i \in 1..Len(TheStrategy)}
        \cup (IF TheSpike # None THEN {"framewise_displacement"} ELSE {})

\* C1: when the confound table holds only basic columns of the strategy's
\* families (and framewise_displacement when spike is set), the columns of
\* the table _pick_confounds returns are, as a set, exactly the basic
\* columns of each family, their _power2 at levels power2 and full, their
\* _derivative1 at levels derivatives and full, their _derivative1_power2
\* at level full, and spike iff spike is not None.
C1_PickedColumnSet ==
    (PickReturned /\ OnlyBasicColumns) =>
        Range(Returned.columns) = ExpectedColumns

C1_Witness ==
    /\ PickReturned /\ OnlyBasicColumns
    /\ TheSpike # None
    /\ Len(TheStrategy) = 2
    /\ TheStrategy[1][2].v = "full"
    /\ TheStrategy[2][2].v = "power2"
    /\ Cardinality(Range(Returned.columns)) = 6 * 4 + 2 * 2 + 1

\* The strategy items with a basic column that the table lacks.
FamiliesMissing ==
    {i \in 1..Len(TheStrategy) : ~(BasicColumns(TheStrategy[i]) \subseteq TableColumns)}

FirstMissing == CHOOSE i \in FamiliesMissing : \A j \in FamiliesMissing : i <= j

\* C2: if a family of the strategy has a basic column that the table lacks,
\* _process_fmriprep_spec raises the ValueError "Missing basic confounds"
\* that lists exactly the absent basic columns of that family (the first
\* such family of the strategy), each once, and returns nothing; if no
\* family lacks a basic column, that error is not raised.
C2_MissingBasicConfounds ==
    ret.op = "_process_fmriprep_spec" =>
        IF FamiliesMissing # {}
        THEN /\ RaisedWith("ValueError", "Missing basic confounds")
             /\ Range(ret.exc[1].args) = BasicColumns(TheStrategy[FirstMissing]) \ TableColumns
             /\ IsInjective(ret.exc[1].args)
             /\ ret.value = None
        ELSE ~RaisedWith("ValueError", "Missing basic confounds")

C2_Witness ==
    /\ ret.op = "_process_fmriprep_spec"
    /\ Cardinality(FamiliesMissing) = 2
    /\ RaisedWith("ValueError", "Missing basic confounds")
    /\ Len(ret.exc[1].args) = 1
    /\ Cardinality(BasicColumns(TheStrategy[FirstMissing])) = 6

\* C3: with a spike threshold, all basic columns of the strategy present
\* and no framewise_displacement column, _process_fmriprep_spec, and so
\* _pick_confounds before it computes any column, raises the ValueError
\* "Missing framewise_displacement" and no table is returned; without a
\* spike threshold that error is never raised.
C3_MissingFramewiseDisplacement ==
    ret.op \in {"_process_fmriprep_spec", "_pick_confounds"} =>
        /\ (TheSpike # None /\ FamiliesMissing = {}
               /\ "framewise_displacement" \notin TableColumns) =>
              (RaisedWith("ValueError", "Missing framewise_displacement")
                 /\ ret.value = None)
        /\ TheSpike = None =>
              ~RaisedWith("ValueError", "Missing framewise_displacement")

C3_Witness ==
    /\ ret.op = "_pick_confounds"
    /\ RaisedWith("ValueError", "Missing framewise_displacement")
    /\ Len(TheStrategy) = 2
    /\ TheStrategy[1][2].v = "full"
    /\ "framewise_displacement" \notin TableColumns

\* C4: with spike set to t, each row of the returned spike column is 1
\* if the row's framewise_displacement is strictly greater than t, and 0
\* otherwise.
C4_SpikeIsThresholdedDisplacement ==
    (PickReturned /\ TheSpike # None) =>
        \A i \in 1..Returned.rows :
            Returned.values["spike"][i] =
                IF TheTable.values["framewise_displacement"][i] > TheSpike[1]
                THEN 1 ELSE 0

\* The strategy items that ask for derivatives.
WithDerivatives == {i \in 1..Len(TheStrategy) : TheStrategy[i][2].v \in {"derivatives", "full"}}

\* The basic columns whose derivative is requested and not in the table.
DerivedFrom ==
    {x \in UNION {BasicColumns(TheStrategy[i]) : i \in WithDerivatives} :
        (x \o "_derivative1") \notin TableColumns}

\* C5: each requested _derivative1 column that the input table lacks holds
\* x[i+1] - x[i] at every row i but the last and 0 at the last row, and the
\* returned table has as many rows as the input table.
C5_DerivativeIsDiffThenZero ==
    PickReturned =>
        /\ Returned.rows = TheTable.rows
        /\ \A c \in Range(Returned.columns) : Len(Returned.values[c]) = TheTable.rows
        /\ \A x \in DerivedFrom :
              Returned.values[x \o "_derivative1"] =
                  [i \in 1..TheTable.rows |->
                     IF i < TheTable.rows
                     THEN TheTable.values[x][i + 1] - TheTable.values[x][i]
                     ELSE 0]

C5_Witness ==
    /\ PickReturned
    /\ TheTable.rows = MaxRows
    /\ \E x \in DerivedFrom :
          /\ Returned.values[x \o "_derivative1"][1] # 0
          /\ Returned.values[x \o "_derivative1"][MaxRows - 1] < 0

----------------------------------------------------------------------------
(* Construction: properties *)

\* The strategy dict the constructor works on: the one given, or the
\* default one for None.
GivenStrategy == IF ret.args[1] = None THEN DefaultStrategy ELSE ret.args[1][1]

NonStringKey == \E i \in 1..Len(GivenStrategy) : GivenStrategy[i][1].type # "str"

NonStringValue == \E i \in 1..Len(GivenStrategy) : GivenStrategy[i][2].type # "str"

UnknownKey ==
    \E i \in 1..Len(GivenStrategy) :
        GivenStrategy[i][1].v \notin {"motion", "wm_csf", "global_signal"}

UnknownValue ==
    \E i \in 1..Len(GivenStrategy) :
        GivenStrategy[i][2].v \notin {"basic", "power2", "derivatives", "full"}

\* C6: the constructor raises ValueError for a strategy with a non-string
\* key, a non-string value, a key outside {motion, wm_csf, global_signal}
\* or a value outside {basic, power2, derivatives, full}, the first rule
\* violated in that order giving the message; it succeeds for every other
\* strategy and keeps it, and strategy=None becomes all three families at
\* level full.
C6_ConstructorValidatesStrategy ==
    ret.op = "__init__" =>
        /\ NonStringKey => RaisedWith("ValueError", "Strategy keys must be strings")
        /\ (~NonStringKey /\ NonStringValue) =>
              RaisedWith("ValueError", "Strategy values must be strings")
        /\ (~NonStringKey /\ ~NonStringValue /\ UnknownKey) =>
              RaisedWith("ValueError", "Invalid component names")
        /\ (~NonStringKey /\ ~NonStringValue /\ ~UnknownKey /\ UnknownValue) =>
              RaisedWith("ValueError", "Invalid confound types")
        /\ (~NonStringKey /\ ~NonStringValue /\ ~UnknownKey /\ ~UnknownValue) =>
              /\ ret.status = "ok"
              /\ self # None
              /\ self[1].strategy = GivenStrategy
              /\ ret.args[1] = None =>
                    /\ DictKeys(self[1].strategy)
                          = <<Str("motion"), Str("wm_csf"), Str("global_signal")>>
                    /\ \A i \in 1..3 : self[1].strategy[i][2] = Str("full")
        /\ ret.status = "raised" => self = None

\* A strategy that breaks two rules: a non-string value and an unknown key.
C6_Witness ==
    /\ ret.op = "__init__"
    /\ NonStringValue /\ UnknownKey /\ ~NonStringKey
    /\ RaisedWith("ValueError", "Strategy values must be strings")
    /\ Len(GivenStrategy) = 2

----------------------------------------------------------------------------
(* Preprocessing: properties *)

\* The adhoc mapping of the caller's confounds.
TheMapping == TheConfounds.mappings[1].fmriprep[1]

\* Adhoc confounds that are in order: a 4-D image, as many rows as volumes,
\* a mapping to valid fmriprep names.
ValidAdhoc ==
    /\ input.data.ndim = 4
    /\ extra_input # None
    /\ extra_input[1].BOLD_confounds # None
    /\ TheConfounds.data # None
    /\ TheTable.type = "DataFrame"
    /\ TheTable.rows = input.data.t
    /\ TheConfounds.format = Some("adhoc")
    /\ TheConfounds.mappings # None
    /\ TheConfounds.mappings[1].fmriprep # None
    /\ Range(DictValues(TheMapping)) \subseteq FMRIPREP_VALID_NAMES

KeysNotInTable == {k \in Range(DictKeys(TheMapping)) : k \notin Range(TheTable.columns)}

\* C7: for adhoc confounds in order, _validate_data returns without
\* raising when every mapping key is a column of the table; "Missing
\* columns" is raised only when some key is not, and names those keys.
C7_AdhocValidates ==
    (ret.op = "_validate_data" /\ ValidAdhoc) =>
        IF KeysNotInTable = {}
        THEN ret.status = "ok"
        ELSE /\ RaisedWith("ValueError", "Missing columns")
             /\ Range(ret.exc[1].args) = KeysNotInTable

\* C8: every ValueError of the confound remover is preceded by an error
\* record with the same message on the JUNIFER logger.
C8_ErrorsAreLoggedFirst ==
    (ret.status = "raised" /\ ret.exc[1].klass = "ValueError") =>
        \E i \in 1..Len(log) :
            /\ log[i].level = "ERROR"
            /\ log[i].msg = ret.exc[1].msg
            /\ log[i].args = ret.exc[1].args

\* C9: when _validate_data fails on the mappings, preprocess raises with
\* nothing but _validate_data run: neither _pick_confounds nor
\* _remove_confounds, input["data"] still the image given, and the
\* confound table (all of extra_input) as it was.
C9_ValidationComesFirst ==
    [][(self # None /\ ret'.op = "preprocess"
          /\ _validate_data(self[1], input, extra_input).status = "raised") =>
         /\ ret'.status = "raised"
         /\ calls' = <<"_validate_data">>
         /\ input' = input
         /\ extra_input' = extra_input]_vars

\* preprocess has failed in the validation of adhoc confounds whose
\* columns _pick_confounds would have renamed.
C9_Witness ==
    /\ ret.op = "preprocess"
    /\ RaisedWith("ValueError", "Image time series and confounds have different length!")
    /\ calls = <<"_validate_data">>
    /\ TheConfounds.format = Some("adhoc")
    /\ "var0" \in Range(TheTable.columns)

\* C10: on success preprocess returns the key BOLD and the input mapping
\* it was given, whose data entry is now the cleaned image (of the same
\* shape and header) and whose other entries are unchanged.
C10_TransformsInPlace ==
    [][(ret'.op = "preprocess" /\ ret'.status = "ok") =>
         /\ ret'.value = Some([key |-> "BOLD", object |-> "input"])
         /\ input' = [input EXCEPT !.data = input'.data]
         /\ input'.data.cleaned # None
         /\ input'.data = [input.data EXCEPT !.cleaned = input'.data.cleaned]
         /\ calls' = <<"_validate_data", "_pick_confounds", "_remove_confounds">>]_vars

C10_Witness ==
    /\ ret.op = "preprocess"
    /\ ret.status = "ok"
    /\ input.data.cleaned # None
    /\ Len(input.data.cleaned[1].confounds) > 1
    /\ input.path = "bold.nii.gz"

----------------------------------------------------------------------------
(* The remover's configuration: properties *)

\* C11: no operation of a constructed remover changes its configuration:
\* strategy, spike, detrend, standardize, low_pass, high_pass, t_r and
\* mask_img stay as constructed, also when the regression has read the
\* sampling period from the header and computed a brain mask.
C11_ConfigurationIsImmutable ==
    [][self # None =>
         /\ self' # None
         /\ \A f \in {"strategy", "spike", "detrend", "standardize", "low_pass",
                       "high_pass", "t_r", "mask_img"} : self'[1][f] = self[1][f]]_vars

\* A regression that used the header's sampling period and a computed mask,
\* run by a remover whose t_r and mask_img are None.
C11_Witness ==
    /\ ret.op \in {"_remove_confounds", "preprocess"}
    /\ ret.status = "ok"
    /\ self[1].t_r = None /\ self[1].mask_img = None
    /\ self[1].low_pass # None /\ ~self[1].detrend
    /\ LET cleaned == IF ret.op = "preprocess" THEN input.data.cleaned[1]
                      ELSE ret.value[1].cleaned[1]
       IN cleaned.t_r = input.data.t_r /\ cleaned.mask_img = "computed_brain_mask"

----------------------------------------------------------------------------
(* numpy arrays and their numbers *)

\* Largest number of regions (columns) of an aggregated time series.
MaxRegions == 3

\* A 2-D numpy.ndarray: data[t][r] is the value at row t, column r.
NdArray(rows, cols, data) ==
    [type |-> "ndarray", shape |-> <<rows, cols>>, data |-> data]

\* A Python tuple.
Tuple(items) == [type |-> "tuple", items |-> items]

\* A float that is an integer divided by the square root of a positive
\* integer, num / sqrt(rad); NaN is the value with rad = 0.
Surd(num, rad) == [num |-> num, rad |-> rad]

NaN == Surd(0, 0)

IsNaN(x) == x.rad = 0

\* x * y on floats: NaN if either is NaN.
Mul(x, y) == IF IsNaN(x) \/ IsNaN(y) THEN NaN ELSE Surd(x.num * y.num, x.rad * y.rad)

RECURSIVE SumSeq(_)
SumSeq(x) == IF x = <<>> THEN 0 ELSE Head(x) + SumSeq(Tail(x))

Column(a, r) == [t \in 1..a.shape[1] |-> a.data[t][r]]

\* scipy.stats.zscore of one column x of n values: (x[t] - mean) / std with
\* the population standard deviation, that is
\* (n * x[t] - sum x) / sqrt(n * sum x^2 - (sum x)^2); a column of equal
\* values gives 0 / 0 = NaN at every row.
ZScoreColumn(x) ==
    LET n == Len(x)
        S == SumSeq(x)
        Q == SumSeq([t \in 1..n |-> x[t] * x[t]])
    IN [t \in 1..n |-> IF n * Q - S * S = 0 THEN NaN
                       ELSE Surd(n * x[t] - S, n * Q - S * S)]

\* scipy.stats.zscore(a): along axis 0, every column on its own.
zscore(a) ==
    NdArray(a.shape[1], a.shape[2],
            [t \in 1..a.shape[1] |->
                [r \in 1..a.shape[2] |-> ZScoreColumn(Column(a, r))[t]]])

\* Row i (from 0) of numpy.tril_indices(n, k): the pairs <<i, j>> with
\* 0 <= j <= i + k and j < n.
TrilRow(i, n, k) ==
    [c \in 1..(IF i + k + 1 < 0 THEN 0 ELSE IF i + k + 1 > n THEN n ELSE i + k + 1)
        |-> <<i, c - 1>>]

RECURSIVE TrilRows(_, _, _)
TrilRows(i, n, k) == IF i >= n THEN <<>> ELSE TrilRow(i, n, k) \o TrilRows(i + 1, n, k)

\* The whole triangle with its diagonal.
TrilWithDiagonal(n, k) == TrilRows(0, n, 0)

\* numpy.tril_indices(n, k): the index pairs <<u, v>> (from 0) of the lower
\* triangle of an n x n array, row by row.
tril_indices(n, k) == TrilRows(0, n, k)

----------------------------------------------------------------------------
(* junifer.markers.utils._ets *)

\* Line 66: timeseries[:, u] * timeseries[:, v]
EdgeProducts(timeseries, uv) ==
    NdArray(timeseries.shape[1], Len(uv),
            [t \in 1..timeseries.shape[1] |->
                [e \in 1..Len(uv) |-> Mul(timeseries.data[t][uv[e][1] + 1],
                                          timeseries.data[t][uv[e][2] + 1])]])

\* The edge names with the two regions of every edge in the other order.
EdgeNamesSmallerFirst(roi_names, uv) ==
    [e \in 1..Len(uv) |-> roi_names[uv[e][2] + 1] \o "~" \o roi_names[uv[e][1] + 1]]

\* Lines 76-79: "~".join([x, y]) for x, y in zip(_roi_names[u], _roi_names[v])
EdgeNames(roi_names, uv) ==
    [e \in 1..Len(uv) |-> roi_names[uv[e][1] + 1] \o "~" \o roi_names[uv[e][2] + 1]]

\* Lines 66-80 with the indices of the edges.
EtsOfEdges(timeseries, roi_names, uv) ==
    IF roi_names = None
    THEN Ok(Tuple(<<EdgeProducts(timeseries, uv), None>>))
    ELSE IF Len(roi_names[1]) # timeseries.shape[2]
    THEN raise_error("List of roi names does not correspond to the number of ROIs in the timeseries!",
                     "ValueError", <<>>)
    ELSE Ok(Tuple(<<EdgeProducts(timeseries, uv), Some(EdgeNames(roi_names[1], uv))>>))

\* _ets(bold_ts, roi_names): the tuple (ets, edge_names)
_ets(bold_ts, roi_names) ==
    EtsOfEdges(zscore(bold_ts), roi_names, tril_indices(bold_ts.shape[2], -1))

----------------------------------------------------------------------------
(* ParcelAggregation, RSSETSMarker *)

\* What ParcelAggregation.compute returns: the aggregated series (time x
\* regions) and the labels of its columns.
AggregationResult(data, columns) == [data |-> data, columns |-> columns]

\* ParcelAggregation(parcellation, ...).compute(input): the series of the
\* image aggregated over the regions of the parcellation.
ParcelAggregation(parcellation, bold) ==
    Ok(DictGet(bold.data.aggregated, parcellation))

\* RSSETSMarker(parcellation, agg_method, agg_method_params, mask, name);
\* the name defaults to the class name.
RSSETSMarker(parcellation, agg_method, agg_method_params, mask, name) ==
    Ok([class |-> "RSSETSMarker", parcellation |-> parcellation,
        agg_method |-> agg_method, agg_method_params |-> agg_method_params,
        mask |-> mask,
        name |-> IF name = None THEN "RSSETSMarker" ELSE name[1]])

\* A float n / d; NaN is the value with d = 0.
Ratio(n, d) == [n |-> n, d |-> d]

Square(x) == IF IsNaN(x) THEN Ratio(0, 0) ELSE Ratio(x.num * x.num, x.rad)

RatioAdd(a, b) ==
    IF a.d = 0 \/ b.d = 0 THEN Ratio(0, 0) ELSE Ratio(a.n * b.d + b.n * a.d, a.d * b.d)

RECURSIVE RatioSum(_)
RatioSum(x) == IF x = <<>> THEN Ratio(0, 1) ELSE RatioAdd(Head(x), RatioSum(Tail(x)))

\* x ** 2 in Python: elementwise on an ndarray; a tuple has no power.
PyPow2(x) ==
    IF x.type = "ndarray"
    THEN Ok(NdArray(x.shape[1], x.shape[2],
                    [t \in 1..x.shape[1] |->
                        [e \in 1..x.shape[2] |-> Square(x.data[t][e])]]))
    ELSE Raise("TypeError", "unsupported operand type(s) for ** or pow()",
               <<x.type, "int">>)

\* np.sum(a, 1) ** 0.5: the square root of the sum of every row
SqrtOfRowSums(a) ==
    [type |-> "ndarray", shape |-> <<a.shape[1]>>,
     data |-> [t \in 1..a.shape[1] |-> [sqrt_of |-> RatioSum(a.data[t])]]]

\* Lines 157-160 with the value of edge_ts ** 2.
RSSOfSquares(out, squared) ==
    IF squared.status = "raised" THEN squared
    ELSE Ok([out EXCEPT !.data = SqrtOfRowSums(squared.value[1]),
                        !.columns = <<"root_sum_of_squares_ets">>])

\* Lines 155-160 with what _ets returned.
RSSOfEts(out, edge_ts) ==
    IF edge_ts.status = "raised" THEN edge_ts
    ELSE RSSOfSquares(out, PyPow2(edge_ts.value[1]))

\* Lines 154-160 with what the aggregation returned.
RSSOfAggregation(out) ==
    IF out.status = "raised" THEN out
    ELSE RSSOfEts(out.value[1], _ets(out.value[1].data, None))

\* RSSETSMarker.compute(input, extra_input)
RSSETSMarker_compute(marker, bold, extra) ==
    RSSOfAggregation(ParcelAggregation(marker.parcellation, bold))

----------------------------------------------------------------------------
(* Aggregated series *)

RegionNames == <<"A", "B", "C", "D", "E", "F">>

\* The series of n time points whose r-th column is the ks[r]-th
\* generated column; the column MaxVal + 1 has equal values.
Series(ks, n) ==
    NdArray(n, Len(ks), [t \in 1..n |-> [r \in 1..Len(ks) |-> Cell(ks[r], t)]])

\* The choices of 1..MaxRegions different generated columns, in order.
ColumnChoices ==
    {ks \in UNION {[1..r -> 1..(MaxVal + 1)] : r \in 1..MaxRegions} :
        \A i \in 1..(Len(ks) - 1) : ks[i] < ks[i + 1]}

\* Aggregated series of 1..MaxRows time points and 1..MaxRegions regions.
AggregatedSeries ==
    {AggregationResult(Series(ks, n), SubSeq(RegionNames, 1, Len(ks))) :
        ks \in ColumnChoices, n \in 1..MaxRows}

\* The BOLD mapping of an image with its aggregation per parcellation.
BoldAggregated(aggregated) ==
    [data |-> [type |-> "Nifti1Image", aggregated |-> aggregated],
     path |-> "bold.nii.gz", meta |-> "meta"]

\* The series aggregated over the marker's one parcellation.
TheSeries == DictGet(input.data.aggregated, "parcellation")

----------------------------------------------------------------------------
(* Edge time series: _ets on an aggregated series, an RSSETSMarker and its *)
(* compute.                                                                *)

\* _ets(bold_ts) or _ets(bold_ts, roi_names), with as many names as
\* regions or one less
Ets ==
    /\ \E roi_names \in {None, Some(TheSeries.columns), Some(Tail(TheSeries.columns))} :
          LET res == _ets(TheSeries.data, roi_names)
          IN /\ ret' = Call("_ets", <<roi_names>>, res)
             /\ log' = res.log
    /\ calls' = <<>>
    /\ UNCHANGED <<self, input, extra_input>>

ConstructRSS ==
    /\ self = None
    /\ \E agg_method \in {"mean", "std"}, name \in {None, Some("rss")} :
          LET res == RSSETSMarker("parcellation", agg_method, None, None, name)
          IN /\ self' = res.value
             /\ ret' = Call("__init__", <<agg_method, name>>, [res EXCEPT !.value = None])
             /\ log' = res.log
    /\ calls' = <<>>
    /\ UNCHANGED <<input, extra_input>>

ComputeRSS ==
    /\ self # None
    /\ LET res == RSSETSMarker_compute(self[1], input, extra_input)
       IN /\ ret' = Call("compute", <<>>, res)
          /\ log' = res.log
    /\ calls' = <<>>
    /\ UNCHANGED <<self, input, extra_input>>

InitEts ==
    /\ self = None
    /\ input \in {BoldAggregated(<<<<"parcellation", a>>>>) : a \in AggregatedSeries}
    /\ extra_input = None
    /\ ret = NoCall
    /\ log = <<>>
    /\ calls = <<>>

NextEts ==
    \/ Ets
    \/ ConstructRSS
    \/ ComputeRSS

SpecEts == InitEts /\ [][NextEts]_vars

----------------------------------------------------------------------------
(* Edge time series: properties *)

\* Number of regions and of time points of the caller's series.
NRegions == TheSeries.data.shape[2]

NTimes == TheSeries.data.shape[1]

\* The z-scored series of region i (from 1).
ZScored(i) == ZScoreColumn(Column(TheSeries.data, i))

\* The edge array and the edge names of the tuple _ets returned.
EtsArray == ret.value[1].items[1]

EtsNames == ret.value[1].items[2][1]

\* The regions (from 0) of the edges, in the order of the edge columns.
EdgePairs == tril_indices(NRegions, -1)

\* Column e of the edge array is the product of the z-scored series of the
\* regions i and j (from 1).
IsProductOf(e, i, j) ==
    \A t \in 1..NTimes : EtsArray.data[t][e] = Mul(ZScored(i)[t], ZScored(j)[t])

\* C12: _ets returns as many rows as time points and R*(R-1)/2 columns,
\* one for each unordered pair of distinct regions, each the elementwise
\* product of the z-scored series of its pair; no pair twice, no region
\* paired with itself.
C12_EdgesAreProductsOfPairs ==
    (ret.op = "_ets" /\ ret.status = "ok") =>
        /\ EtsArray.shape = <<NTimes, (NRegions * (NRegions - 1)) \div 2>>
        /\ Len(EtsArray.data) = NTimes
        /\ \A t \in 1..NTimes : Len(EtsArray.data[t]) = (NRegions * (NRegions - 1)) \div 2
        /\ \A i, j \in 1..NRegions :
              i < j => Cardinality({e \in 1..EtsArray.shape[2] :
                                       {EdgePairs[e][1] + 1, EdgePairs[e][2] + 1} = {i, j}}) = 1
        /\ \A e \in 1..EtsArray.shape[2] :
              /\ EdgePairs[e][1] # EdgePairs[e][2]
              /\ IsProductOf(e, EdgePairs[e][1] + 1, EdgePairs[e][2] + 1)

\* Three regions, several time points, an edge that is a number.
C12_Witness ==
    /\ ret.op = "_ets" /\ ret.status = "ok"
    /\ NRegions = 3 /\ NTimes >= 2
    /\ EtsArray.shape[2] = 3
    /\ \E t \in 1..NTimes : ~IsNaN(EtsArray.data[t][2]) /\ EtsArray.data[t][2].num # 0
    /\ \E t \in 1..NTimes : IsNaN(EtsArray.data[t][3])

\* C13 as stated: with roi_names, the edge of every pair (i, j), i < j, is
\* labelled "<name_i>~<name_j>", and the k-th label names the two regions
\* whose product is the k-th edge column.
C13_LabelsSmallerIndexFirst ==
    (ret.op = "_ets" /\ ret.status = "ok" /\ ret.args[1] # None) =>
        /\ Len(EtsNames) = EtsArray.shape[2]
        /\ \A i, j \in 1..NRegions :
              i < j => \E e \in 1..Len(EtsNames) :
                          /\ EtsNames[e] = ret.args[1][1][i] \o "~" \o ret.args[1][1][j]
                          /\ IsProductOf(e, i, j)

\* C13 as amended: with roi_names, the edge of every pair (i, j), i > j,
\* is labelled "<name_i>~<name_j>" (the later region in column order
\* first), and the k-th label names the two regions whose product is the
\* k-th edge column.
C13_LabelsLargerIndexFirst ==
    (ret.op = "_ets" /\ ret.status = "ok" /\ ret.args[1] # None) =>
        /\ Len(EtsNames) = EtsArray.shape[2]
        /\ \A i, j \in 1..NRegions :
              i > j => \E e \in 1..Len(EtsNames) :
                          /\ EtsNames[e] = ret.args[1][1][i] \o "~" \o ret.args[1][1][j]
                          /\ IsProductOf(e, i, j)
        /\ \A e \in 1..Len(EtsNames) :
              \E i, j \in 1..NRegions :
                  /\ i > j
                  /\ EtsNames[e] = ret.args[1][1][i] \o "~" \o ret.args[1][1][j]
                  /\ IsProductOf(e, i, j)

\* Names given for three regions.
C13_Witness ==
    /\ ret.op = "_ets" /\ ret.status = "ok" /\ ret.args[1] # None
    /\ NRegions = 3 /\ NTimes >= 2
    /\ EtsNames = <<"B~A", "C~A", "C~B">>
    /\ \E t \in 1..NTimes : ~IsNaN(EtsArray.data[t][1])

\* The root of the sum over all edges of the squared edge series at time t.
RootSumOfSquares(t) ==
    [sqrt_of |->
        RatioSum([e \in 1..Len(EdgePairs) |->
                     Square(Mul(ZScored(EdgePairs[e][1] + 1)[t],
                                ZScored(EdgePairs[e][2] + 1)[t]))])]

\* C14: RSSETSMarker.compute completes without error on an aggregated
\* series and returns data with one value per time point, the square root
\* of the sum over all edges of the squared edge series at that time
\* point, and columns ['root_sum_of_squares_ets'].
C14_ComputeReturnsRootSumOfSquares ==
    ret.op = "compute" =>
        /\ ret.status = "ok"
        /\ ret.value[1].columns = <<"root_sum_of_squares_ets">>
        /\ Len(ret.value[1].data.data) = NTimes
        /\ \A t \in 1..NTimes : ret.value[1].data.data[t] = RootSumOfSquares(t)

----------------------------------------------------------------------------
(* CrossParcellationFC *)

\* The outcome of a constructor: what it returns or raises (res) and the
\* steps it ran, in order: the attributes assigned and the initialisation
\* of the base class.
Constructed(res, steps) == [res |-> res, steps |-> steps]

\* The marker of lines 52-56.
CrossParcellationFCObject(parcellation_one, parcellation_two, aggregation_method, correlation_method, name) ==
    [class |-> "CrossParcellationFC",
     parcellation_one |-> parcellation_one, parcellation_two |-> parcellation_two,
     aggregation_method |-> aggregation_method,
     correlation_method |-> correlation_method,
     on |-> <<"BOLD">>,
     name |-> IF name = None THEN "CrossParcellationFC" ELSE name[1]]

\* The constructor comparing the parcellations once the marker is set up.
CrossParcellationFCCheckedLast(parcellation_one, parcellation_two, aggregation_method, correlation_method, name) ==
    Constructed(IF parcellation_one = parcellation_two
                THEN raise_error("The two parcellations must be different.",
                                 "ValueError", <<>>)
                ELSE Ok(CrossParcellationFCObject(parcellation_one, parcellation_two,
                                                  aggregation_method,
                                                  correlation_method, name)),
                <<"self.parcellation_one", "self.parcellation_two",
                  "self.aggregation_method", "self.correlation_method",
                  "BaseMarker.__init__">>)

\* CrossParcellationFC(parcellation_one, parcellation_two, ...)
CrossParcellationFC(parcellation_one, parcellation_two, aggregation_method, correlation_method, name) ==
    IF parcellation_one = parcellation_two
    THEN Constructed(raise_error("The two parcellations must be different.",
                                 "ValueError", <<>>),
                     <<>>)
    ELSE Constructed(Ok(CrossParcellationFCObject(parcellation_one, parcellation_two,
                                                  aggregation_method,
                                                  correlation_method, name)),
                     <<"self.parcellation_one", "self.parcellation_two",
                       "self.aggregation_method", "self.correlation_method",
                       "BaseMarker.__init__">>)

\* The correlation (by the given method) of the series x with the series y.
Corr(method, x, y) == [corr |-> method, x |-> x, y |-> y]

\* _correlate_dataframes(df1, df2, method).values: the correlation of every
\* column of df1 (columns of the result) with every column of df2 (rows).
_correlate_dataframes(df1, df2, method) ==
    IF df1.shape[1] # df2.shape[1]
    THEN raise_error("pandas.DataFrame's have unequal number of rows!", "ValueError", <<>>)
    ELSE Ok(NdArray(df2.shape[2], df1.shape[2],
                    [r \in 1..df2.shape[2] |->
                        [c \in 1..df1.shape[2] |->
                            Corr(method, Column(df1, c), Column(df2, r))]]))

\* Lines 165-169 with the correlations.
CrossParcellationResult(one, two, result) ==
    IF result.status = "raised" THEN result
    ELSE Ok([data |-> result.value[1], col_names |-> one.columns,
             row_names |-> two.columns])

\* Lines 154-169 with the two aggregations.
CrossParcellationOf(marker, one, two) ==
    IF one.status = "raised" THEN one
    ELSE IF two.status = "raised" THEN two
    ELSE CrossParcellationResult(one.value[1], two.value[1],
                                 _correlate_dataframes(one.value[1].data,
                                                       two.value[1].data,
                                                       marker.correlation_method))

\* CrossParcellationFC.compute(input, extra_input)
CrossParcellationFC_compute(marker, bold, extra) ==
    CrossParcellationOf(marker, ParcelAggregation(marker.parcellation_one, bold),
                        ParcelAggregation(marker.parcellation_two, bold))

----------------------------------------------------------------------------
(* TemporalSNRSpheres *)

\* The marker of lines 53-62.
TemporalSNRSpheresObject(coords, radius, agg_method, agg_method_params, masks, name) ==
    [class |-> "TemporalSNRSpheres", coords |-> coords, radius |-> radius,
     agg_method |-> agg_method, agg_method_params |-> agg_method_params,
     masks |-> masks, name |-> name]

\* TemporalSNRSpheres(coords, radius, agg_method, agg_method_params, masks,
\* name): lines 53-62.
TemporalSNRSpheres(coords, radius, agg_method, agg_method_params, masks, name) ==
    IF radius = None \/ radius[1] <= 0
    THEN Constructed(raise_error("radius should be > 0: provided", "ValueError",
                                 <<radius>>),
                     <<"self.coords", "self.radius">>)
    ELSE Constructed(Ok(TemporalSNRSpheresObject(coords, radius, agg_method,
                                                 agg_method_params, masks, name)),
                     <<"self.coords", "self.radius", "TemporalSNRBase.__init__">>)

----------------------------------------------------------------------------
(* Construction of markers: CrossParcellationFC and its compute,           *)
(* TemporalSNRSpheres.                                                     *)

Parcellations == {"P1", "P2", "P3"}

\* The series of r regions of a parcellation, its columns labelled with
\* the parcellation's regions.
ParcellationSeries(parcellation, r, n) ==
    AggregationResult(Series([i \in 1..r |-> i], n),
                      [i \in 1..r |-> parcellation \o "_" \o RegionNames[i]])

\* Radii: None, negative, zero and positive.
Radii == {None, Some(-1), Some(0), Some(1), Some(2)}

ConstructCrossParcellationFC ==
    /\ self = None
    /\ ret.op = "none"
    /\ \E one \in Parcellations, two \in Parcellations,
          correlation_method \in {"pearson", "spearman"} :
          LET c == CrossParcellationFC(one, two, "mean", correlation_method, None)
          IN /\ self' = c.res.value
             /\ ret' = Call("CrossParcellationFC", <<one, two, correlation_method>>,
                            [c.res EXCEPT !.value = None])
             /\ log' = c.res.log
             /\ calls' = c.steps
    /\ UNCHANGED <<input, extra_input>>

ComputeCrossParcellationFC ==
    /\ self # None
    /\ self[1].class = "CrossParcellationFC"
    /\ LET res == CrossParcellationFC_compute(self[1], input, extra_input)
       IN /\ ret' = Call("compute", <<>>, res)
          /\ log' = res.log
    /\ calls' = <<>>
    /\ UNCHANGED <<self, input, extra_input>>

ConstructTemporalSNRSpheres ==
    /\ self = None
    /\ ret.op = "none"
    /\ \E coords \in {"DMNBuckner", "MultiTask"}, radius \in Radii,
          agg_method \in {"mean", "std"} :
          LET c == TemporalSNRSpheres(coords, radius, agg_method, None, None, None)
          IN /\ self' = c.res.value
             /\ ret' = Call("TemporalSNRSpheres", <<coords, radius, agg_method>>,
                            [c.res EXCEPT !.value = None])
             /\ log' = c.res.log
             /\ calls' = c.steps
    /\ UNCHANGED <<input, extra_input>>

InitConstruction ==
    /\ self = None
    /\ input \in {BoldAggregated(<<<<"P1", ParcellationSeries("P1", r1, n)>>,
                                   <<"P2", ParcellationSeries("P2", r2, n)>>,
                                   <<"P3", ParcellationSeries("P3", r3, n)>>>>) :
                     r1 \in 1..MaxRegions, r2 \in 1..MaxRegions,
                     r3 \in 1..MaxRegions, n \in 1..MaxRows}
    /\ extra_input = None
    /\ ret = NoCall
    /\ log = <<>>
    /\ calls = <<>>

NextConstruction ==
    \/ ConstructCrossParcellationFC
    \/ ComputeCrossParcellationFC
    \/ ConstructTemporalSNRSpheres

SpecConstruction == InitConstruction /\ [][NextConstruction]_vars

----------------------------------------------------------------------------
(* Construction of markers: properties *)

\* The aggregation of the caller's image over the marker's parcellations.
AggregatedOne == DictGet(input.data.aggregated, self[1].parcellation_one)

AggregatedTwo == DictGet(input.data.aggregated, self[1].parcellation_two)

\* C15: CrossParcellationFC with equal parcellations raises before any
\* attribute is set and before the base marker is initialised; with two
\* different names it succeeds, and compute labels the columns with the
\* regions of parcellation one and the rows with those of parcellation two.
C15_EqualParcellationsAreRejected ==
    /\ ret.op = "CrossParcellationFC" =>
          IF ret.args[1] = ret.args[2]
          THEN /\ RaisedWith("ValueError", "The two parcellations must be different.")
               /\ calls = <<>>
               /\ self = None
          ELSE /\ ret.status = "ok"
               /\ self # None
               /\ self[1].parcellation_one = ret.args[1]
               /\ self[1].parcellation_two = ret.args[2]
               /\ calls[Len(calls)] = "BaseMarker.__init__"
    /\ (ret.op = "compute" /\ self[1].class = "CrossParcellationFC") =>
          /\ ret.status = "ok"
          /\ ret.value[1].col_names = AggregatedOne.columns
          /\ ret.value[1].row_names = AggregatedTwo.columns
          /\ ret.value[1].data.shape = <<Len(AggregatedTwo.columns), Len(AggregatedOne.columns)>>

\* A rejected construction.
C15_Witness ==
    /\ ret.op = "CrossParcellationFC"
    /\ ret.args[1] = "P2" /\ ret.args[2] = "P2"
    /\ ret.status = "raised"
    /\ Len(log) = 1

\* C20: TemporalSNRSpheres accepts radius=None (the documented default: a
\* single voxel) and every radius > 0, and rejects exactly the radii <= 0,
\* before the base marker is initialised.
C20_RadiusNoneOrPositive ==
    ret.op = "TemporalSNRSpheres" =>
        IF ret.args[2] # None /\ ret.args[2][1] <= 0
        THEN /\ ret.status = "raised"
             /\ ~In("TemporalSNRBase.__init__", calls)
             /\ self = None
        ELSE /\ ret.status = "ok"
             /\ self # None
             /\ self[1].radius = ret.args[2]

----------------------------------------------------------------------------
(* Complexity measures: _hurst_exponent, _sample_entropy, _range_entropy *)

FloatVal(s) == [type |-> "float", v |-> s]

BoolVal(s) == [type |-> "bool", v |-> s]

\* isinstance(x, klass): bool is a subclass of int.
isinstance(x, klass) == x.type = klass \/ (klass = "int" /\ x.type = "bool")

\* A warning record on the JUNIFER logger.
WarningRecord(msg) == [level |-> "WARNING", msg |-> msg, args |-> <<>>]

\* warn_with_log(msg): logger.warning(msg), then warnings.warn(msg); the
\* records it leaves on the log.
warn_with_log(msg) == <<WarningRecord(msg)>>

\* A failed assert statement: nothing is logged.
AssertionError(msg) == Raise("AssertionError", msg, <<>>)

\* The result of a function together with the calls to the estimator of
\* the numerics library it made, in order.
WithSteps(res, steps) == [res |-> res, steps |-> steps]

\* What the estimators of the numerics library (nk.fractal_dfa,
\* nk.entropy_sample, nk.entropy_range) return for a region: a number or
\* NaN.
Estimates == {NaN, Surd(1, 4)}

\* One estimator call per region.
EstimatorCalls(estimator, n_roi) == [r \in 1..n_roi |-> estimator]

\* np.zeros((n_roi, 1)) with row idx_roi set to the estimate of the region.
RegionColumn(n_roi, est) == NdArray(n_roi, 1, [r \in 1..n_roi |-> <<est[r]>>])

\* np.empty((n_roi, 1)) filled with NaN.
NaNColumn(n_roi) == NdArray(n_roi, 1, [r \in 1..n_roi |-> <<NaN>>])

\* np.isnan(np.sum(a)) of an n x 1 array.
SumIsNaN(a) == \E r \in 1..a.shape[1] : IsNaN(a.data[r][1])

\* The value with the warning about NaN when its sum is NaN.
WarnIfNaN(a, logged, msg, steps) ==
    WithSteps([Ok(a) EXCEPT !.log = IF SumIsNaN(a) THEN logged \o warn_with_log(msg) ELSE logged],
              steps)

\* A variant of _hurst_exponent that keeps the zeros of its initial array
\* for a method other than "dfa".
HurstExponentKeepingZeros(bold_ts, params, est) ==
    IF DictGet(params, "method") = "dfa"
    THEN WarnIfNaN(RegionColumn(bold_ts.shape[2], est), <<>>,
                   "There is NaN in the Hurst exponent values!",
                   EstimatorCalls("nk.fractal_dfa", bold_ts.shape[2]))
    ELSE WarnIfNaN(NdArray(bold_ts.shape[2], 1, [r \in 1..bold_ts.shape[2] |-> <<Surd(0, 1)>>]),
                   warn_with_log("The DFA method is available only!"),
                   "There is NaN in the Hurst exponent values!", <<>>)

\* _hurst_exponent(bold_ts, params); est[r] is what nk.fractal_dfa returns
\* for region r.
_hurst_exponent(bold_ts, params, est) ==
    IF DictGet(params, "method") = "dfa"
    THEN WarnIfNaN(RegionColumn(bold_ts.shape[2], est), <<>>,
                   "There is NaN in the Hurst exponent values!",
                   EstimatorCalls("nk.fractal_dfa", bold_ts.shape[2]))
    ELSE WarnIfNaN(NaNColumn(bold_ts.shape[2]),
                   warn_with_log("The DFA method is available only!"),
                   "There is NaN in the Hurst exponent values!", <<>>)

\* A variant of _sample_entropy that checks its parameters after the loop
\* over the regions.
SampleEntropyCheckedLast(bold_ts, params, est) ==
    IF ~isinstance(DictGet(params, "m"), "int")
    THEN WithSteps(AssertionError("Embedding dimension must be integer."),
                   EstimatorCalls("nk.entropy_sample", bold_ts.shape[2]))
    ELSE IF ~isinstance(DictGet(params, "delay"), "int")
    THEN WithSteps(AssertionError("Delay must be integer."),
                   EstimatorCalls("nk.entropy_sample", bold_ts.shape[2]))
    ELSE IF ~isinstance(DictGet(params, "tol"), "float")
    THEN WithSteps(AssertionError("Tolerance must be a positive float number."),
                   EstimatorCalls("nk.entropy_sample", bold_ts.shape[2]))
    ELSE WarnIfNaN(RegionColumn(bold_ts.shape[2], est), <<>>,
                   "There is NaN in the entropy values!",
                   EstimatorCalls("nk.entropy_sample", bold_ts.shape[2]))

\* _sample_entropy(bold_ts, params); est[r] is what nk.entropy_sample
\* returns for region r (called with the tolerance tol * np.std(sig)).
_sample_entropy(bold_ts, params, est) ==
    IF ~isinstance(DictGet(params, "m"), "int")
    THEN WithSteps(AssertionError("Embedding dimension must be integer."), <<>>)
    ELSE IF ~isinstance(DictGet(params, "delay"), "int")
    THEN WithSteps(AssertionError("Delay must be integer."), <<>>)
    ELSE IF ~isinstance(DictGet(params, "tol"), "float")
    THEN WithSteps(AssertionError("Tolerance must be a positive float number."), <<>>)
    ELSE WarnIfNaN(RegionColumn(bold_ts.shape[2], est), <<>>,
                   "There is NaN in the entropy values!",
                   EstimatorCalls("nk.entropy_sample", bold_ts.shape[2]))

\* _range_entropy(bold_ts, params); est[r] is what nk.entropy_range
\* returns for region r.
_range_entropy(bold_ts, params, est) ==
    IF ~isinstance(DictGet(params, "m"), "int")
    THEN WithSteps(AssertionError("Embedding dimension must be integer."), <<>>)
    ELSE IF ~isinstance(DictGet(params, "delay"), "int")
    THEN WithSteps(AssertionError("Delay must be integer."), <<>>)
    ELSE IF ~isinstance(DictGet(params, "tol"), "float")
    THEN WithSteps(AssertionError("Tolerance must be a float number between 0 and 1."), <<>>)
    ELSE WarnIfNaN(RegionColumn(bold_ts.shape[2], est), <<>>,
                   "There is NaN in the range entropy values!",
                   EstimatorCalls("nk.entropy_range", bold_ts.shape[2]))

----------------------------------------------------------------------------
(* HurstExponent, SampleEntropy *)

\* ComplexityBase.__init__: the marker keeps its parcellation, aggregation
\* method and mask(s); the name defaults to the class name.
ComplexityBase(class, parcellation, agg_method, agg_method_params, mask, name) ==
    [class |-> class, parcellation |-> parcellation, agg_method |-> agg_method,
     agg_method_params |-> agg_method_params, mask |-> mask,
     name |-> IF name = None THEN class ELSE name[1], params |-> None]

\* HurstExponent(parcellation, agg_method, agg_method_params, mask, params,
\* name)
HurstExponent(parcellation, agg_method, agg_method_params, mask, params, name) ==
    Ok([ComplexityBase("HurstExponent", parcellation, agg_method, agg_method_params, mask, name)
           EXCEPT !.params = IF params = None
                             THEN <<<<"method", "dfa">>>>
                             ELSE params[1]])

\* SampleEntropy(parcellation, agg_method, agg_method_params, masks, params,
\* name)
SampleEntropy(parcellation, agg_method, agg_method_params, masks, params, name) ==
    Ok([ComplexityBase("SampleEntropy", parcellation, agg_method, agg_method_params, masks, name)
           EXCEPT !.params = IF params = None
                             THEN <<<<"m", IntVal("4")>>, <<"delay", IntVal("1")>>,
                                    <<"tol", FloatVal("0.5")>>>>
                             ELSE params[1]])

\* out = output.copy(); out["data"] = feature_map;
\* out["col_names"] = output["columns"]; del out["columns"]
FeatureMapOutput(output, feature) ==
    IF feature.res.status = "raised" THEN feature
    ELSE WithSteps([feature.res EXCEPT !.value = Some([data |-> feature.res.value[1],
                                                         col_names |-> output.columns])],
                   feature.steps)

\* HurstExponent.compute(input, extra_input)
HurstExponent_compute(marker, bold, extra, est) ==
    FeatureMapOutput(ParcelAggregation(marker.parcellation, bold).value[1],
                     _hurst_exponent(ParcelAggregation(marker.parcellation, bold).value[1].data,
                                     marker.params, est))

\* SampleEntropy.compute(input, extra_input)
SampleEntropy_compute(marker, bold, extra, est) ==
    FeatureMapOutput(ParcelAggregation(marker.parcellation, bold).value[1],
                     _sample_entropy(ParcelAggregation(marker.parcellation, bold).value[1].data,
                                     marker.params, est))

----------------------------------------------------------------------------
(* Complexity measures: the functions on an aggregated series, the markers *)
(* and their compute.                                                      *)

HurstMethods == {"dfa", "rs"}

HurstParams == {<<<<"method", m>>>> : m \in HurstMethods}

\* Values given as embedding dimension, delay and tolerance: the valid
\* ones, one invalid value at a time, and all three invalid.
EntropyValues ==
    {<<IntVal("2"), IntVal("1"), FloatVal("0.5")>>,
     <<BoolVal("True"), IntVal("1"), FloatVal("0.2")>>,
     <<FloatVal("2.0"), IntVal("1"), FloatVal("0.5")>>,
     <<Str("2"), IntVal("1"), FloatVal("0.5")>>,
     <<IntVal("2"), FloatVal("1.0"), FloatVal("0.5")>>,
     <<IntVal("2"), IntVal("1"), IntVal("1")>>,
     <<IntVal("2"), IntVal("1"), Str("0.5")>>,
     <<FloatVal("2.0"), Str("1"), IntVal("1")>>}

EntropyParams ==
    {<<<<"m", v[1]>>, <<"delay", v[2]>>, <<"tol", v[3]>>>> : v \in EntropyValues}

\* The parameters the documentation of SampleEntropy gives as default.
DocumentedSampleEntropyParams ==
    <<<<"m", IntVal("2")>>, <<"delay", IntVal("1")>>, <<"tol", FloatVal("0.5")>>>>

\* The aggregated series the functions are called on.
BoldTs == TheSeries.data

\* The estimates of the regions of the series.
RegionEstimates == [1..BoldTs.shape[2] -> Estimates]

CallWithSteps(op, args, out) ==
    /\ ret' = Call(op, args, out.res)
    /\ log' = out.res.log
    /\ calls' = out.steps

HurstExponentOf ==
    /\ \E params \in HurstParams, est \in RegionEstimates :
          CallWithSteps("_hurst_exponent", <<params, est>>,
                        _hurst_exponent(BoldTs, params, est))
    /\ UNCHANGED <<self, input, extra_input>>

SampleEntropyOf ==
    /\ \E params \in EntropyParams, est \in RegionEstimates :
          CallWithSteps("_sample_entropy", <<params, est>>,
                        _sample_entropy(BoldTs, params, est))
    /\ UNCHANGED <<self, input, extra_input>>

RangeEntropyOf ==
    /\ \E params \in EntropyParams, est \in RegionEstimates :
          CallWithSteps("_range_entropy", <<params, est>>,
                        _range_entropy(BoldTs, params, est))
    /\ UNCHANGED <<self, input, extra_input>>

ConstructHurstExponent ==
    /\ self = None
    /\ \E params \in {None} \cup {Some(p) : p \in HurstParams} :
          LET res == HurstExponent("parcellation", "mean", None, None, params, None)
          IN /\ self' = res.value
             /\ ret' = Call("HurstExponent", <<params>>, [res EXCEPT !.value = None])
             /\ log' = res.log
    /\ calls' = <<>>
    /\ UNCHANGED <<input, extra_input>>

ConstructSampleEntropy ==
    /\ self = None
    /\ \E params \in {None} \cup {Some(p) : p \in EntropyParams} :
          LET res == SampleEntropy("parcellation", "mean", None, None, params, None)
          IN /\ self' = res.value
             /\ ret' = Call("SampleEntropy", <<params>>, [res EXCEPT !.value = None])
             /\ log' = res.log
    /\ calls' = <<>>
    /\ UNCHANGED <<input, extra_input>>

ComputeHurstExponent ==
    /\ self # None
    /\ self[1].class = "HurstExponent"
    /\ \E est \in RegionEstimates :
          CallWithSteps("compute", <<est>>,
                        HurstExponent_compute(self[1], input, extra_input, est))
    /\ UNCHANGED <<self, input, extra_input>>

ComputeSampleEntropy ==
    /\ self # None
    /\ self[1].class = "SampleEntropy"
    /\ \E est \in RegionEstimates :
          CallWithSteps("compute", <<est>>,
                        SampleEntropy_compute(self[1], input, extra_input, est))
    /\ UNCHANGED <<self, input, extra_input>>

InitComplexity ==
    /\ self = None
    /\ input \in {BoldAggregated(<<<<"parcellation", ParcellationSeries("parcellation", r, n)>>>>) :
                     r \in 1..MaxRegions, n \in {1, MaxRows}}
    /\ extra_input = None
    /\ ret = NoCall
    /\ log = <<>>
    /\ calls = <<>>

NextComplexity ==
    \/ HurstExponentOf
    \/ SampleEntropyOf
    \/ RangeEntropyOf
    \/ ConstructHurstExponent
    \/ ConstructSampleEntropy
    \/ ComputeHurstExponent
    \/ ComputeSampleEntropy

SpecComplexity == InitComplexity /\ [][NextComplexity]_vars

----------------------------------------------------------------------------
(* Complexity measures: properties *)

\* The number of values of an array.
Size(a) == a.shape[1] * a.shape[2]

\* The values of an n x 1 or 1 x n array, in order.
Flat(a) == [i \in 1..Size(a) |-> IF a.shape[2] = 1 THEN a.data[i][1] ELSE a.data[1][i]]

Warned == \E i \in 1..Len(log) : log[i].level = "WARNING"

\* C16: with a method other than "dfa", _hurst_exponent raises nothing,
\* warns, and returns one value per region, each NaN; with "dfa" it returns
\* the estimator's value of each region and warns exactly when one of them
\* is NaN.
C16_UnsupportedMethodGivesNaN ==
    ret.op = "_hurst_exponent" =>
        /\ ret.status = "ok"
        /\ Size(ret.value[1]) = BoldTs.shape[2]
        /\ IF DictGet(ret.args[1], "method") # "dfa"
           THEN /\ \A r \in 1..BoldTs.shape[2] : IsNaN(Flat(ret.value[1])[r])
                /\ Warned
                /\ calls = <<>>
           ELSE /\ \A r \in 1..BoldTs.shape[2] : Flat(ret.value[1])[r] = ret.args[2][r]
                /\ Warned <=> \E r \in 1..BoldTs.shape[2] : IsNaN(ret.args[2][r])

\* An unsupported method on a series of several regions.
C16_Witness ==
    /\ ret.op = "_hurst_exponent"
    /\ DictGet(ret.args[1], "method") = "rs"
    /\ BoldTs.shape[2] = MaxRegions
    /\ Len(log) = 2

\* C17: the output of HurstExponent.compute and SampleEntropy.compute has
\* data of shape 1 x regions and one column label per region, so the number
\* of data columns is the number of column labels.
C17_OneRowOneColumnPerRegion ==
    (ret.op = "compute" /\ ret.status = "ok") =>
        /\ ret.value[1].data.shape = <<1, BoldTs.shape[2]>>
        /\ Len(ret.value[1].col_names) = BoldTs.shape[2]
        /\ ret.value[1].data.shape[2] = Len(ret.value[1].col_names)

\* True and False are integers.
IsInteger(x) == x.type \in {"int", "bool"}

ValidEntropyParams(params) ==
    /\ IsInteger(DictGet(params, "m"))
    /\ IsInteger(DictGet(params, "delay"))
    /\ DictGet(params, "tol").type = "float"

\* C18: _sample_entropy and _range_entropy fail with an AssertionError,
\* before the estimator is called for any region and without a result,
\* when m or delay is not an integer or tol is not a float; with an integer
\* m, an integer delay and a float tol they compute every region.
C18_ParametersAreCheckedFirst ==
    ret.op \in {"_sample_entropy", "_range_entropy"} =>
        IF ValidEntropyParams(ret.args[1])
        THEN /\ ret.status = "ok"
             /\ Len(calls) = BoldTs.shape[2]
        ELSE /\ ret.status = "raised"
             /\ ret.exc[1].klass = "AssertionError"
             /\ ret.value = None
             /\ calls = <<>>

\* An integer tolerance is rejected.
C18_Witness ==
    /\ ret.op = "_sample_entropy"
    /\ DictGet(ret.args[1], "tol") = IntVal("1")
    /\ IsInteger(DictGet(ret.args[1], "m"))
    /\ IsInteger(DictGet(ret.args[1], "delay"))
    /\ RaisedWith("AssertionError", "Tolerance must be a positive float number.")

SameParams(p, q) ==
    /\ {p[i][1] : i \in 1..Len(p)} = {q[i][1] : i \in 1..Len(q)}
    /\ \A i \in 1..Len(p) : DictGet(q, p[i][1]) = p[i][2]

\* C19: a SampleEntropy constructed with params=None has the parameters
\* m = 2, delay = 1, tol = 0.5; constructed with a mapping it has that
\* mapping.
C19_DefaultParamsAsDocumented ==
    ret.op = "SampleEntropy" =>
        /\ ret.status = "ok"
        /\ IF ret.args[1] = None
           THEN SameParams(self[1].params, DocumentedSampleEntropyParams)
           ELSE self[1].params = ret.args[1][1]

----------------------------------------------------------------------------
(* Metadata hashing: process_meta *)

\* Python values of a metadata dictionary: None, dict (its items in
\* insertion order), list, and the leaves Str and IntVal.
PyNone == [type |-> "NoneType", none |-> TRUE]

PyDict(items) == [type |-> "dict", items |-> items]

PyList(elems) == [type |-> "list", elems |-> elems]

\* The key names of metadata, in the order in which sorting puts them.
KeyNames ==
    <<"A", "B", "B1", "B2", "_element_keys", "bar", "dependencies", "element",
      "foo", "session", "subject">>

\* list(d.keys())
Keys(d) == [i \in 1..Len(d.items) |-> d.items[i][1]]

\* d[k]
Item(d, k) == DictGet(d.items, k)

\* d without the key k, the other items in their order.
Pop(d, k) == PyDict(SelectSeq(d.items, LAMBDA it : it[1] # k))

\* The keys of a mapping in sorted order.
SortedKeys(d) == SelectSeq(KeyNames, LAMBDA k : In(k, Keys(d)))

\* A variant of the canonical form that sorts the top level only.
CanonicalTopLevel(x) ==
    IF x.type = "dict"
    THEN PyDict([i \in 1..Len(x.items) |->
                    <<SortedKeys(x)[i], Item(x, SortedKeys(x)[i])>>])
    ELSE x

\* The canonical form of a value: the items of every mapping, at any
\* depth, in the order of their sorted keys; sequences keep their order.
RECURSIVE Canonical(_)
Canonical(x) ==
    IF x.type = "dict"
    THEN PyDict([i \in 1..Len(x.items) |->
                    <<SortedKeys(x)[i], Canonical(Item(x, SortedKeys(x)[i]))>>])
    ELSE IF x.type = "list"
    THEN PyList([i \in 1..Len(x.elems) |-> Canonical(x.elems[i])])
    ELSE x

\* The hash of a canonical form: equal forms have equal digests, and
\* different forms are taken to have different ones.
Digest(canonical) == [type |-> "str", digest_of |-> canonical]

\* A variant of the cleaned metadata without the names of the element's
\* keys.
CleanedMetaUntagged(meta) == Pop(meta, "element")

\* The metadata without "element", tagged with the names of the element's
\* keys in their order.
CleanedMeta(meta) ==
    PyDict(Append(Pop(meta, "element").items,
                  <<"_element_keys",
                    PyList([i \in 1..Len(Item(meta, "element").items) |->
                               Str(Keys(Item(meta, "element"))[i])])>>))

\* A variant of process_meta that hashes the metadata with its element.
ProcessMetaHashingElement(meta) ==
    IF meta.type # "dict"
    THEN raise_error("`meta` must be a dict", "ValueError", <<>>)
    ELSE IF ~In("element", Keys(meta))
    THEN raise_error("`meta` must contain the key 'element'", "ValueError", <<>>)
    ELSE IF ~In("dependencies", Keys(meta))
    THEN raise_error("`meta` must contain the key 'dependencies'", "ValueError", <<>>)
    ELSE Ok([hash |-> Digest(Canonical(meta)),
             meta |-> CleanedMeta(meta),
             element |-> Item(meta, "element")])

\* process_meta(meta): the hash, the cleaned metadata and the element.
process_meta(meta) ==
    IF meta.type # "dict"
    THEN raise_error("`meta` must be a dict", "ValueError", <<>>)
    ELSE IF ~In("element", Keys(meta))
    THEN raise_error("`meta` must contain the key 'element'", "ValueError", <<>>)
    ELSE IF ~In("dependencies", Keys(meta))
    THEN raise_error("`meta` must contain the key 'dependencies'", "ValueError", <<>>)
    ELSE Ok([hash |-> Digest(Canonical(CleanedMeta(meta))),
             meta |-> CleanedMeta(meta),
             element |-> Item(meta, "element")])

----------------------------------------------------------------------------
(* Metadata hashing: two metadata dictionaries and the calls on them *)

\* Element mappings: one key with two values, another key name, and two
\* keys in both orders.
Elements ==
    {PyDict(<<<<"foo", Str("bar")>>>>),
     PyDict(<<<<"foo", Str("baz")>>>>),
     PyDict(<<<<"bar", Str("baz")>>>>),
     PyDict(<<<<"subject", Str("foo")>>, <<"session", Str("bar")>>>>),
     PyDict(<<<<"session", Str("bar")>>, <<"subject", Str("foo")>>>>)}

\* Values of "B": lists, and a nested mapping in both orders.
NestedValues ==
    {PyList(<<IntVal("2"), IntVal("3")>>),
     PyList(<<IntVal("2"), IntVal("1")>>),
     PyDict(<<<<"B1", PyList(<<IntVal("9")>>)>>, <<"B2", IntVal("2")>>>>),
     PyDict(<<<<"B2", IntVal("2")>>, <<"B1", PyList(<<IntVal("9")>>)>>>>)}

DependencyLists == {PyList(<<Str("numpy")>>), PyList(<<Str("scipy")>>)}

\* The orders of the keys of the top level.
TopLevelOrders ==
    {<<"element", "A", "B", "dependencies">>,
     <<"A", "B", "element", "dependencies">>}

MetaOf(order, e, b, d) ==
    PyDict([i \in 1..Len(order) |->
               <<order[i],
                 CASE order[i] = "element" -> e
                   [] order[i] = "A" -> IntVal("1")
                   [] order[i] = "B" -> b
                   [] order[i] = "dependencies" -> d>>])

\* Metadata without a required key, or not a dict.
InvalidMetas ==
    {PyNone, PyDict(<<>>), PyDict(<<<<"element", PyDict(<<>>)>>>>)}

Metas ==
    {MetaOf(o, e, b, d) : o \in TopLevelOrders, e \in Elements,
                          b \in NestedValues, d \in DependencyLists}
    \cup InvalidMetas

\* The record of a call of process_meta.
MetaCall(meta) ==
    [meta |-> meta, status |-> process_meta(meta).status,
     value |-> process_meta(meta).value]

\* process_meta on the first metadata dictionary, then on the second.
ProcessMeta ==
    /\ Len(calls) < 2
    /\ LET meta == IF calls = <<>> THEN input ELSE extra_input
       IN /\ ret' = Call("process_meta", <<meta>>, process_meta(meta))
          /\ log' = process_meta(meta).log
          /\ calls' = Append(calls, MetaCall(meta))
    /\ UNCHANGED <<self, input, extra_input>>

InitMeta ==
    /\ self = None
    /\ input \in Metas
    /\ extra_input \in Metas
    /\ ret = NoCall
    /\ log = <<>>
    /\ calls = <<>>

NextMeta == ProcessMeta

SpecMeta == InitMeta /\ [][NextMeta]_vars

----------------------------------------------------------------------------
(* Metadata hashing: properties *)

\* Equality of Python values: two mappings are equal when they have the
\* same keys with equal values, in whatever order; two lists when they have
\* equal elements in the same order.
RECURSIVE PyEq(_, _)
PyEq(x, y) ==
    IF x.type # y.type THEN FALSE
    ELSE IF x.type = "dict"
    THEN /\ Range(Keys(x)) = Range(Keys(y))
         /\ \A k \in Range(Keys(x)) : PyEq(Item(x, k), Item(y, k))
    ELSE IF x.type = "list"
    THEN /\ Len(x.elems) = Len(y.elems)
         /\ \A i \in 1..Len(x.elems) : PyEq(x.elems[i], y.elems[i])
    ELSE x = y

\* Both calls were made, on metadata that process_meta accepts.
BothProcessed ==
    /\ Len(calls) = 2
    /\ calls[1].status = "ok"
    /\ calls[2].status = "ok"

FirstMeta == calls[1].meta

SecondMeta == calls[2].meta

SameHash == calls[1].value[1].hash = calls[2].value[1].hash

SameElementKeyOrder ==
    Keys(Item(FirstMeta, "element")) = Keys(Item(SecondMeta, "element"))

DifferInElementValuesOnly ==
    /\ Pop(FirstMeta, "element") = Pop(SecondMeta, "element")
    /\ Keys(FirstMeta) = Keys(SecondMeta)
    /\ Keys(Item(FirstMeta, "element")) = Keys(Item(SecondMeta, "element"))

\* What a call returned for the metadata it was given.
ReturnsOwnElement(c) ==
    /\ c.value[1].element = Item(c.meta, "element")
    /\ In("_element_keys", Keys(c.value[1].meta))
    /\ Item(c.value[1].meta, "_element_keys") =
          PyList([i \in 1..Len(Keys(Item(c.meta, "element"))) |->
                     Str(Keys(Item(c.meta, "element"))[i])])
    /\ ~In("element", Keys(c.value[1].meta))

C23_OtherChangesChangeHash ==
    BothProcessed =>
        /\ Range(Keys(Item(FirstMeta, "element"))) # Range(Keys(Item(SecondMeta, "element")))
              => ~SameHash
        /\ ~PyEq(Pop(FirstMeta, "element"), Pop(SecondMeta, "element")) => ~SameHash

\* Elements with the keys "foo" and "bar", all else equal.
C23_Witness ==
    /\ BothProcessed
    /\ Pop(FirstMeta, "element") = Pop(SecondMeta, "element")
    /\ Keys(Item(FirstMeta, "element")) = <<"foo">>
    /\ Keys(Item(SecondMeta, "element")) = <<"bar">>
    /\ ~SameHash


----------------------------------------------------------------------------
(* Confound selection: order of the columns, derived values, the frame *)

RECURSIVE DerivativeTerms(_, _)
\* The derivative terms of the basic columns: each column's derivative,
\* followed at level full by the square of that derivative.
DerivativeTerms(basics, level) ==
    IF basics = <<>> THEN <<>>
    ELSE <<Head(basics) \o "_derivative1">>
         \o (IF level = "full" THEN <<Head(basics) \o "_derivative1_power2">> ELSE <<>>)
         \o DerivativeTerms(Tail(basics), level)

\* The columns one strategy item asks for, in the order it asks for them.
RequestedOrder(item) ==
    LET basics == FMRIPREP_BASICS(item[1].v)
        level == item[2].v
    IN basics
       \o (IF level \in {"power2", "full"}
           THEN [i \in 1..Len(basics) |-> basics[i] \o "_power2"] ELSE <<>>)
       \o (IF level \in {"derivatives", "full"}
           THEN DerivativeTerms(basics, level) ELSE <<>>)

RECURSIVE StrategyOrder(_)
StrategyOrder(strategy) ==
    IF strategy = <<>> THEN <<>>
    ELSE RequestedOrder(Head(strategy)) \o StrategyOrder(Tail(strategy))

ExpectedOrder ==
    StrategyOrder(TheStrategy) \o (IF TheSpike # None THEN <<"spike">> ELSE <<>>)

\* C24: the columns of the table _pick_confounds returns are in the order
\* in which the strategy, walked in its iteration order, first asks for
\* them: per family its basic columns, then their squares (levels power2
\* and full), then the derivative terms (levels derivatives and full) with
\* each column's squared derivative right after its derivative at level
\* full, and spike last when a threshold is set; no column appears twice.
C24_ColumnsInRequestedOrder ==
    PickReturned =>
        /\ Returned.columns = ExpectedOrder
        /\ IsInjective(Returned.columns)

C24_Witness ==
    /\ PickReturned
    /\ TheSpike # None
    /\ Len(TheStrategy) = 2
    /\ TheStrategy[1][2].v = "full"
    /\ TheStrategy[2][2].v = "power2"
    /\ TableColumns # Range(AllBasics) \cup {spike_name}
    /\ Returned.columns[Len(Returned.columns)] = "spike"

\* The strategy items of the given levels.
ItemsAt(levels) == {i \in 1..Len(TheStrategy) : TheStrategy[i][2].v \in levels}

\* The basic columns whose squared derivative the strategy asks for and the
\* table lacks.
DerivedSquaredDerivatives ==
    {x \in UNION {BasicColumns(TheStrategy[i]) : i \in ItemsAt({"full"})} :
        (x \o "_derivative1_power2") \notin TableColumns}

\* The basic columns whose square the strategy asks for and the table lacks.
DerivedSquares ==
    {x \in UNION {BasicColumns(TheStrategy[i]) : i \in ItemsAt({"power2", "full"})} :
        (x \o "_power2") \notin TableColumns}

\* C25: derivatives are derived before squares.  At level full a squared
\* derivative that the table lacks is derived by a call that returns, and
\* it is row by row the square of the derivative column of the same
\* returned table, supplied or derived; a derived square of a basic column
\* is row by row the square of that column.
C25_SquaresFollowDerivatives ==
    ret.op = "_pick_confounds" =>
        /\ (FamiliesMissing = {} /\ ~(TheSpike # None /\ spike_name \notin TableColumns))
               => ret.status = "ok"
        /\ ret.status = "ok" =>
               /\ \A x \in DerivedSquaredDerivatives :
                      Returned.values[x \o "_derivative1_power2"]
                          = SeriesSquare(Returned.values[x \o "_derivative1"])
               /\ \A x \in DerivedSquares :
                      /\ Returned.values[x \o "_power2"] = SeriesSquare(Returned.values[x])
                      /\ Returned.values[x] = TheTable.values[x]

C25_Witness ==
    /\ PickReturned
    /\ "csf" \in DerivedSquaredDerivatives
    /\ "csf_derivative1" \in TableColumns
    /\ "white_matter" \in DerivedSquaredDerivatives
    /\ "white_matter_derivative1" \notin TableColumns
    /\ Returned.values["white_matter_derivative1_power2"]
           # Returned.values["white_matter_derivative1"]
    /\ Returned.values["csf_derivative1"] = TheTable.values["csf_derivative1"]

\* The derived names the strategy asks for: squares and derivatives.
RequestedSquares ==
    UNION {{x \o "_power2" : x \in BasicColumns(TheStrategy[i])} : i \in ItemsAt({"power2", "full"})}
    \cup UNION {{x \o "_derivative1_power2" : x \in BasicColumns(TheStrategy[i])} : i \in ItemsAt({"full"})}

RequestedDerivatives ==
    UNION {{x \o "_derivative1" : x \in BasicColumns(TheStrategy[i])} :
              i \in ItemsAt({"derivatives", "full"})}

\* C27: supplied columns are not recomputed.  The squares_to_compute and
\* derivatives_to_compute of _process_fmriprep_spec hold exactly the derived
\* names the strategy asks for and the table lacks, and every selected
\* column other than spike that the table has comes back from
\* _pick_confounds with the values of the table.
C27_SuppliedColumnsAreKept ==
    /\ (ret.op = "_process_fmriprep_spec" /\ ret.status = "ok") =>
           /\ Range(DictKeys(ret.value[1].squares_to_compute)) = RequestedSquares \ TableColumns
           /\ Range(DictKeys(ret.value[1].derivatives_to_compute))
                  = RequestedDerivatives \ TableColumns
    /\ PickReturned =>
           \A c \in (Range(Returned.columns) \cap TableColumns) \ {"spike"} :
               Returned.values[c] = TheTable.values[c]

C27_Witness ==
    /\ PickReturned
    /\ "csf_power2" \in Range(Returned.columns) \cap TableColumns
    /\ Returned.values["csf_power2"] # SeriesSquare(Returned.values["csf"])
    /\ "white_matter_power2" \in Range(Returned.columns) \ TableColumns


TheFormat == TheConfounds.format[1]

\* The frame after is the frame before with the columns that are keys of
\* the mapping renamed and every column keeping its data.
AdhocRenamed(before, after, mapping) ==
    /\ after.rows = before.rows
    /\ Len(after.columns) = Len(before.columns)
    /\ \A i \in 1..Len(before.columns) :
          /\ after.columns[i] = RenamedName(mapping, before.columns[i])
          /\ after.values[after.columns[i]] = before.values[before.columns[i]]

\* What a call of _pick_confounds does to the caller's mapping.
CallerTableKept ==
    /\ TheFormat = "fmriprep" => extra_input' = extra_input
    /\ TheFormat = "adhoc" =>
          /\ extra_input' = ExtraInput([TheConfounds EXCEPT !.data = TheConfounds.data'])
          /\ AdhocRenamed(TheTable, TheTable', TheMapping)

\* The call follows a call that returned a table and returns an equal one.
SecondCallReturnsEqualTable ==
    PickReturned => (ret'.status = "ok" /\ ret'.value = ret.value)

\* C26 (as stated): _pick_confounds leaves the caller's table alone for the
\* format fmriprep, whether it returns or raises; for the format adhoc it
\* only renames the mapped columns in place; and a second call on the same
\* input returns a table equal to that of the first call.
C26_SecondCallReturnsEqualTable ==
    [][ret'.op = "_pick_confounds" => (CallerTableKept /\ SecondCallReturnsEqualTable)]_vars

\* No column of the table is a key of the adhoc mapping: renaming again
\* changes nothing.
RenamingSettled ==
    TheFormat = "adhoc" => \A c \in TableColumns : ~DictHas(TheMapping, c)

\* C26: _pick_confounds leaves the caller's table alone for the format
\* fmriprep, whether it returns or raises; for the format adhoc it only
\* renames the mapped columns in place; and a second call on the same input
\* returns a table equal to that of the first call when the first call left
\* no column that is a key of the mapping.
C26_SecondCallOnSettledTable ==
    [][ret'.op = "_pick_confounds" =>
          /\ CallerTableKept
          /\ RenamingSettled => SecondCallReturnsEqualTable]_vars

C26_Witness ==
    /\ PickReturned
    /\ TheFormat = "adhoc"
    /\ TheMapping = GoodMapping
    /\ RenamingSettled
    /\ "csf" \in TableColumns
    /\ "csf" \in Range(Returned.columns)


----------------------------------------------------------------------------
(* junifer/utils/logging.py: _close_handlers, log_versions, configure_logging *)

_logging_types ==
    <<<<"DEBUG", 10>>, <<"INFO", 20>>, <<"WARNING", 30>>, <<"ERROR", 40>>>>

LevelNumber(n) == [type |-> "int", n |-> n]

default_format == "%(asctime)s - %(name)s - %(levelname)s - %(message)s"

\* A handler object: its class, what it writes to, the mode its file was
\* opened with, whether close() was called on it, and its formatter.
Handler(klass, target, mode, fmt) ==
    [klass |-> klass, target |-> target, mode |-> mode, closed |-> FALSE, fmt |-> fmt]

\* isinstance(handler, logging.FileHandler)
IsFileHandler(h) == h.klass = "FileHandler"

\* isinstance(handler, (logging.FileHandler, logging.StreamHandler)):
\* FileHandler is a subclass of StreamHandler.
IsStreamHandler(h) == h.klass \in {"FileHandler", "StreamHandler"}

\* The process-wide logging state: the JUNIFER logger (its level and the
\* handlers it holds, by object number), the level of the datalad logger,
\* the handler objects created so far, the files and what went to stdout.
World(level, held, lgr, objects, files, stdout) ==
    [level |-> level, handlers |-> held, lgr |-> lgr, objects |-> objects,
     files |-> files, stdout |-> stdout]

\* The handlers loop keeping the stream handlers: only file handlers are
\* closed and removed.
CloseHandlersKeepingStreams(world) ==
    [world EXCEPT
       !.objects = [i \in 1..Len(world.objects) |->
                      IF In(i, world.handlers) /\ IsFileHandler(world.objects[i])
                      THEN [world.objects[i] EXCEPT !.closed = TRUE]
                      ELSE world.objects[i]],
       !.handlers = SelectSeq(world.handlers,
                              LAMBDA i : ~IsFileHandler(world.objects[i]))]

\* _close_handlers(logger): every stream or file handler of the logger is
\* removed; close() is called on the file handlers only.
_close_handlers(world) ==
    [world EXCEPT
       !.objects = [i \in 1..Len(world.objects) |->
                      IF In(i, world.handlers) /\ IsFileHandler(world.objects[i])
                      THEN [world.objects[i] EXCEPT !.closed = TRUE]
                      ELSE world.objects[i]],
       !.handlers = SelectSeq(world.handlers,
                              LAMBDA i : ~IsStreamHandler(world.objects[i]))]

\* The installed packages log_versions finds among those it reports.
InstalledPackages == <<"numpy", "junifer">>

\* The messages of log_versions, in order.
VersionMessages ==
    <<"===== Lib Versions =====">>
    \o [i \in 1..Len(InstalledPackages) |-> InstalledPackages[i] \o ": version"]
    \o <<"========================">>

\* One handler emitting the messages: a file handler appends the formatted
\* lines to its file, a stream handler to stdout, any other handler to
\* nothing the model keeps.
Emit(world, h, messages) ==
    LET lines == [i \in 1..Len(messages) |-> [fmt |-> h.fmt, msg |-> messages[i]]]
    IN IF IsFileHandler(h)
       THEN [world EXCEPT !.files = DictSet(@, h.target, DictGet(@, h.target) \o lines)]
       ELSE IF IsStreamHandler(h)
       THEN [world EXCEPT !.stdout = @ \o lines]
       ELSE world

RECURSIVE EmitAll(_, _, _)
EmitAll(world, held, messages) ==
    IF held = <<>> THEN world
    ELSE EmitAll(Emit(world, world.objects[Head(held)], messages), Tail(held), messages)

\* log_versions(): logger.info of every message; the logger passes a record
\* on to its handlers when INFO is at or above its level.
log_versions(world) ==
    IF 20 >= world.level
    THEN EmitAll(world, world.handlers, VersionMessages)
    ELSE world

\* logging.FileHandler(fname, mode=mode): the file is opened at once, "w"
\* truncates it, "a" creates it when it does not exist.
OpenFile(files, fname, mode) ==
    IF mode = "w" \/ ~DictHas(files, fname) THEN DictSet(files, fname, <<>>) ELSE files

AppendWarning ==
    [level |-> "WARNING",
     msg |-> "File exists. Messages will be appended. Use overwrite=True to overwrite or overwrite=False to avoid this message.",
     args |-> <<>>]

\* The handler of the call and the files after it was made.
NewHandler(world, fname, overwrite, output_format) ==
    LET fmt == IF output_format = None THEN default_format ELSE output_format[1]
        mode == IF overwrite = Some(TRUE) THEN "w" ELSE "a"
    IN IF fname # None
       THEN [lh |-> Handler("FileHandler", fname[1], mode, fmt),
             files |-> OpenFile(world.files, fname[1], mode)]
       ELSE [lh |-> Handler("StreamHandler", "stdout", "", fmt),
             files |-> world.files]

\* configure_logging(level, fname, overwrite, output_format): the world
\* after the call and the warnings it gave.
configure_logging(before, level, fname, overwrite, output_format) ==
    LET world == _close_handlers(before)
        number == IF level.type = "str" THEN DictGet(_logging_types, level.v) ELSE level.n
        warned == fname # None /\ DictHas(world.files, fname[1]) /\ overwrite = None
        new == NewHandler(world, fname, IF warned THEN Some(FALSE) ELSE overwrite,
                          output_format)
        installed == [world EXCEPT
                        !.files = new.files,
                        !.objects = Append(@, new.lh),
                        !.level = number,
                        !.lgr = number,
                        !.handlers = Append(@, Len(world.objects) + 1)]
    IN [world |-> log_versions(installed),
        warnings |-> IF warned THEN <<AppendWarning>> ELSE <<>>]

MaxConfigurations == 3

\* (level, fname, overwrite, output_format)
LoggingArgs ==
    {<<Str("WARNING"), None, None, None>>,
     <<Str("INFO"), None, None, None>>,
     <<LevelNumber(10), Some("a.log"), Some(TRUE), None>>,
     <<Str("INFO"), Some("a.log"), None, None>>,
     <<Str("DEBUG"), Some("a.log"), Some(FALSE), Some("%(message)s")>>,
     <<Str("INFO"), Some("b.log"), Some(TRUE), Some("%(message)s")>>,
     <<Str("ERROR"), Some("b.log"), None, None>>}

\* The state of the process: self is the JUNIFER logger and the level of
\* the datalad logger, extra_input the handler objects, input the files
\* and stdout.
TheWorld ==
    World(self.level, self.handlers, self.lgr, extra_input, input.files, input.stdout)

\* configure_logging(level, fname, overwrite, output_format)
ConfigureLogging ==
    /\ Len(calls) < MaxConfigurations
    /\ \E a \in LoggingArgs :
          LET r == configure_logging(TheWorld, a[1], a[2], a[3], a[4])
          IN /\ self' = [level |-> r.world.level, handlers |-> r.world.handlers,
                         lgr |-> r.world.lgr]
             /\ extra_input' = r.world.objects
             /\ input' = [files |-> r.world.files, stdout |-> r.world.stdout]
             /\ log' = r.warnings
             /\ ret' = Call("configure_logging", a, Ok(None))
             /\ calls' = Append(calls, a)

\* The files when a.log is there from an earlier run.
ExistingLog == <<<<"a.log", <<[fmt |-> "%(message)s", msg |-> "old"]>>>>>>

\* The logger as the module creates it (level WARNING of the root logger,
\* no handler), or with a handler that is neither stream nor file handler
\* installed by the application; a.log may exist already.
InitLogging ==
    /\ extra_input \in {<<>>, <<Handler("NullHandler", "", "", "")>>}
    /\ self = [level |-> 30, handlers |-> [i \in 1..Len(extra_input) |-> i], lgr |-> 30]
    /\ input \in {[files |-> f, stdout |-> <<>>] : f \in {<<>>, ExistingLog}}
    /\ ret = NoCall
    /\ log = <<>>
    /\ calls = <<>>

NextLogging == ConfigureLogging

SpecLogging == InitLogging /\ [][NextLogging]_vars

----------------------------------------------------------------------------
(* configure_logging: properties *)

LastArgs == calls[Len(calls)]

LastHandler == extra_input[Len(extra_input)]

\* The handler the last call installed is the only stream or file handler
\* of the logger, it is open, and it is what the call asked for.
OnlyLastHandlerInstalled ==
    /\ SelectSeq(self.handlers, LAMBDA i : IsStreamHandler(extra_input[i])) = <<Len(extra_input)>>
    /\ ~LastHandler.closed
    /\ IF LastArgs[2] = None
       THEN LastHandler.klass = "StreamHandler"
       ELSE /\ LastHandler.klass = "FileHandler"
            /\ LastHandler.target = LastArgs[2][1]

\* Write mode only when overwrite is true, append mode otherwise; a file
\* opened in write mode holds nothing but what the last call logged.
ModeFollowsOverwrite ==
    LastArgs[2] # None =>
        /\ LastHandler.mode = (IF LastArgs[3] = Some(TRUE) THEN "w" ELSE "a")
        /\ LastHandler.mode = "w" =>
              \A i \in 1..Len(DictGet(input.files, LastHandler.target)) :
                  In(DictGet(input.files, LastHandler.target)[i].msg, VersionMessages)

\* The stream and file handlers of earlier calls.
EarlierHandlers == {i \in 1..(Len(extra_input) - 1) : IsStreamHandler(extra_input[i])}

\* C28 (as stated): after any sequence of configure_logging calls the
\* JUNIFER logger holds exactly one stream or file handler, that of the
\* most recent call; every stream or file handler installed before is
\* closed and removed; a file is opened in write mode only when overwrite
\* is true and in append mode otherwise.
C28_EarlierHandlersClosedAndRemoved ==
    ret.op = "configure_logging" =>
        /\ OnlyLastHandlerInstalled
        /\ ModeFollowsOverwrite
        /\ \A i \in EarlierHandlers : extra_input[i].closed /\ ~In(i, self.handlers)

\* C28: after any sequence of configure_logging calls the JUNIFER logger
\* holds exactly one stream or file handler, that of the most recent call;
\* every stream or file handler installed before is removed, and closed if
\* and only if it is a file handler; a file is opened in write mode only
\* when overwrite is true and in append mode otherwise.
C28_EarlierHandlersRemovedFilesClosed ==
    ret.op = "configure_logging" =>
        /\ OnlyLastHandlerInstalled
        /\ ModeFollowsOverwrite
        /\ \A i \in EarlierHandlers :
              /\ extra_input[i].closed <=> IsFileHandler(extra_input[i])
              /\ ~In(i, self.handlers)

C28_Witness ==
    /\ ret.op = "configure_logging"
    /\ Len(calls) = MaxConfigurations
    /\ Len(self.handlers) = 2
    /\ \E i, j \in EarlierHandlers :
          IsFileHandler(extra_input[i]) /\ ~IsFileHandler(extra_input[j])
    /\ LastHandler.mode = "w"
    /\ log # <<>> \/ Len(input.files) = 2


----------------------------------------------------------------------------
(* junifer/datagrabber/meta.py: MultipleDataGrabber *)

\* A wrapped datagrabber: its class name, the types it provides, the
\* mapping it gives for an element, and whether its __enter__ or __exit__
\* raises.
DataGrabber(name, types, out, enter_raises, exit_raises) ==
    [name |-> name, types |-> types, out |-> out,
     enter_raises |-> enter_raises, exit_raises |-> exit_raises]

\* What is known of a wrapped datagrabber while the program runs: whether
\* it is entered, and how often __enter__ returned and __exit__ was called.
Idle == [entered |-> FALSE, enters |-> 0, exits |-> 0]

\* A call the MultipleDataGrabber makes to its i-th datagrabber.
GrabberCall(i, method, args) == <<i, method, args>>

\* self._datagrabbers = datagrabbers
MultipleDataGrabber(datagrabbers) == [_datagrabbers |-> datagrabbers]

RECURSIVE TypesFrom(_, _)
TypesFrom(dgs, i) ==
    IF i > Len(dgs) THEN <<>> ELSE dgs[i].types \o TypesFrom(dgs, i + 1)

\* get_types: [x for dg in self._datagrabbers for x in dg.get_types()]
get_types(mdg) == Ok(TypesFrom(mdg._datagrabbers, 1))

\* dg.get_meta() of a wrapped datagrabber
GrabberMeta(dg) == <<<<"class", dg.name>>>>

\* The t_meta get_meta builds.
t_meta(mdg) ==
    <<<<"class", "MultipleDataGrabber">>,
      <<"datagrabbers", [i \in 1..Len(mdg._datagrabbers) |-> GrabberMeta(mdg._datagrabbers[i])]>>>>

\* get_meta: t_meta is built and the method ends without a return
\* statement.
get_meta(mdg) ==
    LET built == t_meta(mdg)
    IN Ok(None)

\* dg[element] of a wrapped datagrabber: its paths for the element.
GrabberItem(dg, element) ==
    [i \in 1..Len(dg.out) |-> <<dg.out[i][1], element \o "/" \o dg.out[i][2]>>]

RECURSIVE Update(_, _)
\* out.update(t_out)
Update(out, t_out) ==
    IF t_out = <<>> THEN out
    ELSE Update(DictSet(out, Head(t_out)[1], Head(t_out)[2]), Tail(t_out))

RECURSIVE OutFrom(_, _, _, _)
\* The out of __getitem__ from the i-th datagrabber on.
OutFrom(dgs, element, i, out) ==
    IF i > Len(dgs) THEN out
    ELSE OutFrom(dgs, element, i + 1, Update(out, GrabberItem(dgs[i], element)))

\* __getitem__: out is built and the method ends without a return
\* statement.
__getitem__(mdg, element) ==
    LET out == OutFrom(mdg._datagrabbers, element, 1, <<>>)
    IN Ok(None)

\* dg.__enter__(): a datagrabber whose __enter__ raises is not entered.
GrabberEnter(dg, state) ==
    IF dg.enter_raises
    THEN [res |-> Raise("RuntimeError", "__enter__ failed", <<dg.name>>), state |-> state]
    ELSE [res |-> Ok(None),
          state |-> [state EXCEPT !.entered = TRUE, !.enters = @ + 1]]

\* dg.__exit__(exc_type, exc_value, exc_traceback): a datagrabber whose
\* __exit__ raises stays entered.
GrabberExit(dg, state) ==
    IF dg.exit_raises
    THEN [res |-> Raise("RuntimeError", "__exit__ failed", <<dg.name>>),
          state |-> [state EXCEPT !.exits = @ + 1]]
    ELSE [res |-> Ok(None),
          state |-> [state EXCEPT !.entered = FALSE, !.exits = @ + 1]]

RECURSIVE EnterFrom(_, _, _, _)
\* "for dg in self._datagrabbers: dg.__enter__()" from the i-th on: the
\* first exception ends the loop.
EnterFrom(dgs, i, states, made) ==
    IF i > Len(dgs) THEN [res |-> Ok(None), states |-> states, made |-> made]
    ELSE LET r == GrabberEnter(dgs[i], states[i])
             after == [states EXCEPT ![i] = r.state]
             now == Append(made, GrabberCall(i, "__enter__", <<>>))
         IN IF r.res.status = "raised"
            THEN [res |-> r.res, states |-> after, made |-> now]
            ELSE EnterFrom(dgs, i + 1, after, now)

__enter__(mdg, states) == EnterFrom(mdg._datagrabbers, 1, states, <<>>)

RECURSIVE ExitFrom(_, _, _, _, _)
\* "for dg in self._datagrabbers: dg.__exit__(...)" from the i-th on.
ExitFrom(dgs, i, exc, states, made) ==
    IF i > Len(dgs) THEN [res |-> Ok(None), states |-> states, made |-> made]
    ELSE LET r == GrabberExit(dgs[i], states[i])
             after == [states EXCEPT ![i] = r.state]
             now == Append(made, GrabberCall(i, "__exit__", exc))
         IN IF r.res.status = "raised"
            THEN [res |-> r.res, states |-> after, made |-> now]
            ELSE ExitFrom(dgs, i + 1, exc, after, now)

__exit__(mdg, exc, states) == ExitFrom(mdg._datagrabbers, 1, exc, states, <<>>)

MaxGrabbers == 3

WrappedGrabbers ==
    {DataGrabber("BoldGrabber", <<"BOLD">>, <<<<"BOLD", "bold.nii">>>>, FALSE, FALSE),
     DataGrabber("AnatGrabber", <<"T1w", "BOLD">>,
                 <<<<"T1w", "t1w.nii">>, <<"BOLD", "anat_bold.nii">>>>, FALSE, FALSE),
     DataGrabber("LockedGrabber", <<"VBM_GM">>, <<<<"VBM_GM", "gm.nii">>>>, TRUE, FALSE),
     DataGrabber("StuckGrabber", <<"BOLD_confounds">>,
                 <<<<"BOLD_confounds", "confounds.tsv">>>>, FALSE, TRUE)}

GrabberElements == {"sub-01", "sub-02"}

\* (exc_type, exc_value, exc_traceback) when the body of the with
\* statement ended normally or raised.
ExitArgs == {<<None, None, None>>, <<Some("ValueError"), Some("body failed"), Some("traceback")>>}

\* The state of a program using the MultipleDataGrabber in a with
\* statement: self is the MultipleDataGrabber, input what is known of each
\* wrapped datagrabber, extra_input the position of the with statement
\* ("before" it, in its "body", "after" it), calls the calls the last
\* method made to the wrapped datagrabbers.
TheGrabbers == self[1]._datagrabbers

\* The with statement calling __enter__: the body runs only when it
\* returns, and __exit__ is not called when it raises.
Enter ==
    /\ extra_input = "before"
    /\ LET r == __enter__(self[1], input)
       IN /\ ret' = Call("__enter__", <<>>, r.res)
          /\ input' = r.states
          /\ calls' = r.made
          /\ extra_input' = IF r.res.status = "ok" THEN "body" ELSE "after"
    /\ UNCHANGED <<self, log>>

\* The with statement calling __exit__ when its body has ended.
Exit ==
    /\ extra_input = "body"
    /\ \E exc \in ExitArgs :
          LET r == __exit__(self[1], exc, input)
          IN /\ ret' = Call("__exit__", exc, r.res)
             /\ input' = r.states
             /\ calls' = r.made
    /\ extra_input' = "after"
    /\ UNCHANGED <<self, log>>

\* mdg[element]
GetItem ==
    /\ \E element \in GrabberElements :
          ret' = Call("__getitem__", <<element>>, __getitem__(self[1], element))
    /\ calls' = [i \in 1..Len(TheGrabbers) |-> GrabberCall(i, "__getitem__", ret'.args)]
    /\ UNCHANGED <<self, input, extra_input, log>>

\* mdg.get_types()
GetTypes ==
    /\ ret' = Call("get_types", <<>>, get_types(self[1]))
    /\ calls' = [i \in 1..Len(TheGrabbers) |-> GrabberCall(i, "get_types", <<>>)]
    /\ UNCHANGED <<self, input, extra_input, log>>

\* mdg.get_meta()
GetMeta ==
    /\ ret' = Call("get_meta", <<>>, get_meta(self[1]))
    /\ calls' = [i \in 1..Len(TheGrabbers) |-> GrabberCall(i, "get_meta", <<>>)]
    /\ UNCHANGED <<self, input, extra_input, log>>

InitGrabber ==
    /\ self \in {Some(MultipleDataGrabber(dgs)) : dgs \in InjSeqs(WrappedGrabbers, MaxGrabbers)}
    /\ input = [i \in 1..Len(TheGrabbers) |-> Idle]
    /\ extra_input = "before"
    /\ ret = NoCall
    /\ log = <<>>
    /\ calls = <<>>

NextGrabber == Enter \/ Exit \/ GetItem \/ GetTypes \/ GetMeta

SpecGrabber == InitGrabber /\ [][NextGrabber]_vars

----------------------------------------------------------------------------
(* MultipleDataGrabber: properties *)

\* The calls of the last method went to the first k datagrabbers, one call
\* each, in list order.
CalledInListOrder(k) ==
    /\ Len(calls) = k
    /\ \A i \in 1..k : calls[i][1] = i /\ calls[i][2] = ret.op

NoneLeftEntered == \A i \in 1..Len(input) : ~input[i].entered

\* C29: every datagrabber __enter__ has entered is exited exactly once by
\* the matching __exit__; the datagrabbers are entered and exited in list
\* order; after the with statement no datagrabber is left entered, also
\* when a later __enter__ or an earlier __exit__ raised.
C29_EnteredAreExitedOnce ==
    /\ ret.op = "__enter__" =>
           /\ \E k \in 0..Len(TheGrabbers) : CalledInListOrder(k)
           /\ ret.status = "ok" => CalledInListOrder(Len(TheGrabbers))
    /\ ret.op = "__exit__" => \E k \in 0..Len(TheGrabbers) : CalledInListOrder(k)
    /\ extra_input = "after" =>
           /\ NoneLeftEntered
           /\ \A i \in 1..Len(input) : input[i].exits = input[i].enters

\* C30: mdg[element] asks every datagrabber once in list order and returns
\* the merged mapping, a later datagrabber replacing the entry of an
\* earlier one; get_types returns the types of the datagrabbers
\* concatenated in list order; get_meta returns the mapping of the class
\* name and the list of the datagrabbers' metadata.
C30_MergedItemTypesAndMeta ==
    /\ ret.op = "__getitem__" =>
           /\ CalledInListOrder(Len(TheGrabbers))
           /\ ret.status = "ok"
           /\ ret.value = Some(OutFrom(TheGrabbers, ret.args[1], 1, <<>>))
    /\ ret.op = "get_types" =>
           /\ ret.status = "ok"
           /\ Len(ret.value[1]) = Len(TypesFrom(TheGrabbers, 1))
           /\ \A i \in 1..Len(TheGrabbers) : \A j \in 1..Len(TheGrabbers[i].types) :
                 ret.value[1][Len(TypesFrom([k \in 1..(i - 1) |-> TheGrabbers[k]], 1)) + j]
                     = TheGrabbers[i].types[j]
    /\ ret.op = "get_meta" =>
           /\ ret.status = "ok"
           /\ ret.value = Some(t_meta(self[1]))

=============================================================================
